---- MODULE Spec2Model ----
(***************************************************************************)
(* Planning-poker session engine (danlam444/smart-planning-poker).         *)
(*                                                                         *)
(* The model follows src/src/lib/sessionManager.ts: the Redis/KV backed    *)
(* functions createSession .. deleteSession (lines 47-190), which keep one *)
(* JSON record per session under the key session:<id>, and the vote route  *)
(* src/src/app/api/sessions/[id]/vote/route.ts in front of vote().         *)
(*                                                                         *)
(* The specifications, over the same operators:                            *)
(*   Spec        every call runs to completion before the next starts      *)
(*   ConcSpec    two calls run concurrently; each await of getSession /    *)
(*               createSession / updateSession is a separate step          *)
(*   IsoSpec     as ConcSpec, one call in flight on each of two sessions   *)
(*   ProfileSpec joins, votes, avatar changes, heartbeats and leaves       *)
(*   RouteSpec   the HTTP routes with their pusher broadcasts              *)
(*   MgrSpec     the in-memory SessionManager class behind server.js       *)
(*   StoreSpec   the in-memory SessionStore singleton                      *)
(* removeParticipant, updateAvatar, updateHeartbeat and the reveal route   *)
(* are imported or called by the routes and the client but are not part of *)
(* the source tree; they follow the specification (section 4.1).           *)
(*                                                                         *)
(* The role the specification calls "voter" is the string 'estimator' in   *)
(* this source (sessionManager.ts:10).  JSON null is the string NULL and a *)
(* property that the code never sets (avatar) reads as Undefined.          *)
(* createdAt is written once and never read, and is left out.              *)
(***************************************************************************)
EXTENDS Integers, Sequences, FiniteSets, TLC

\* ------------------------------------------------------------------ domains
SessionIds == {"s1"}
ParticipantIds == {"p1", "p2"}
Names == {"Alice", "Bob"}
Roles == {"estimator", "observer"}
NULL == "null"
CardValues == {"5"}
VoteValues == CardValues \cup {NULL}
Undefined == "undefined"
Avatars == {"panda", "chicken"}
Stories == {"", "Login"}
DefaultSessionName == "Planning Session"
CreatedSessionName == "Sprint"
\* the clock stops at MaxTime
MaxTime == 1

\* store: the Redis/KV keyspace, a function from the ids of the stored
\*        sessions to their records
\* now:   the clock read by new Date()
\* last:  the call that ran last, with its arguments and its return value
\* procs: the calls in flight (ConcSpec)
\* base:  the keyspace when the calls in flight were issued (ConcSpec)
\* sessions:      SessionManager.sessions, the Map of the in-memory class
\* storeSessions: SessionStore.sessions, the Map of the singleton store
\* pushed: the messages the last call handed to pusher.trigger or io.emit
\* client: one browser tab's state, or the arguments and the result of a
\*         votingUtils function (the server's specifications leave it alone)
\* socketToParticipant: server.js's Map from socket.id to the participant
\*         the socket joined as
VARIABLES store, now, last, procs, base, sessions, storeSessions, pushed,
          client, socketToParticipant

vars == <<store, now, last, procs, base, sessions, storeSessions, pushed,
          client, socketToParticipant>>

\* ------------------------------------------------------- session records
createSession(id, name, t) ==
  [id |-> id, name |-> name, participants |-> <<>>, revealed |-> FALSE,
   story |-> "", storyLocked |-> FALSE, lastActivity |-> t]

\* Array.prototype.findIndex on p.id, 1-based; 0 when there is none
RECURSIVE findIndexFrom(_, _, _)
findIndexFrom(ps, pid, i) ==
  IF i > Len(ps) THEN 0
  ELSE IF ps[i].id = pid THEN i
  ELSE findIndexFrom(ps, pid, i + 1)

findIndex(ps, pid) == findIndexFrom(ps, pid, 1)

\* updateSession with a key that leaves the id out: every session is SET
\* under the one key "s1"
updateSession_SharedKey(st, session, t) ==
  [k \in DOMAIN st \cup {"s1"} |->
     IF k = "s1" THEN [session EXCEPT !.lastActivity = t] ELSE st[k]]

\* SET ... NX: a record is written only under a key that holds none
updateSession_IfAbsent(st, session, t) ==
  IF session.id \in DOMAIN st THEN st
  ELSE [k \in DOMAIN st \cup {session.id} |->
          IF k = session.id THEN [session EXCEPT !.lastActivity = t] ELSE st[k]]

\* updateSession: stamp lastActivity, then SET the record under its key
updateSession(st, session, t) ==
  [k \in DOMAIN st \cup {session.id} |->
     IF k = session.id THEN [session EXCEPT !.lastActivity = t] ELSE st[k]]

\* addParticipant without the look-up of the id: every join pushes an entry
addParticipantModify_AlwaysPush(session, pid, name, role, avatar) ==
  [session EXCEPT !.participants =
     Append(@, [id |-> pid, name |-> name, role |-> role,
                vote |-> NULL, avatar |-> Undefined])]

\* addParticipant that also starts a new round: it clears revealed
addParticipantModify_Unreveal(session, pid, name, role, avatar) ==
  LET existingIndex == findIndex(session.participants, pid) IN
  IF existingIndex > 0
  THEN [session EXCEPT !.revealed = FALSE,
                       !.participants[existingIndex] =
          [id |-> pid, name |-> name, role |-> role,
           vote |-> session.participants[existingIndex].vote,
           avatar |-> Undefined]]
  ELSE [session EXCEPT !.revealed = FALSE,
                       !.participants =
          Append(@, [id |-> pid, name |-> name, role |-> role,
                     vote |-> NULL, avatar |-> Undefined])]

\* the record addParticipant builds for participantId; the fifth argument a
\* caller sends (avatar) is not a parameter of the function and is dropped
addParticipantModify(session, pid, name, role, avatar) ==
  LET existingIndex == findIndex(session.participants, pid) IN
  IF existingIndex > 0
  THEN [session EXCEPT !.participants[existingIndex] =
          [id |-> pid, name |-> name, role |-> role,
           vote |-> session.participants[existingIndex].vote,
           avatar |-> Undefined]]
  ELSE [session EXCEPT !.participants =
          Append(@, [id |-> pid, name |-> name, role |-> role,
                     vote |-> NULL, avatar |-> Undefined])]

\* vote's check without the role test: any participant may vote
voteAllowed_AnyRole(session, pid) ==
  findIndex(session.participants, pid) > 0

\* vote's check with a test of revealed added: no vote once revealed
voteAllowed_UnlessRevealed(session, pid) ==
  LET i == findIndex(session.participants, pid) IN
  i > 0 /\ session.participants[i].role = "estimator" /\ ~session.revealed

\* vote's check: the participant exists and is an estimator
voteAllowed(session, pid) ==
  LET i == findIndex(session.participants, pid) IN
  i > 0 /\ session.participants[i].role = "estimator"

voteModify(session, pid, voteValue) ==
  [session EXCEPT !.participants[findIndex(session.participants, pid)].vote = voteValue]

\* reveal flipping the flag instead of setting it
revealModify_Toggle(session) == [session EXCEPT !.revealed = ~@]

revealModify(session) == [session EXCEPT !.revealed = TRUE]

resetModify(session) ==
  [session EXCEPT
     !.revealed = FALSE,
     !.participants = [i \in DOMAIN @ |->
        IF @[i].role = "estimator" THEN [@[i] EXCEPT !.vote = NULL] ELSE @[i]]]

\* updateStory that takes an empty story or a false flag for "not given"
updateStoryModify_SkipsFalsy(session, story, storyLocked) ==
  [session EXCEPT !.story = IF story = "" THEN @ ELSE story,
                  !.storyLocked = IF storyLocked THEN TRUE ELSE @]

updateStoryModify(session, story, storyLocked) ==
  [session EXCEPT !.story = story, !.storyLocked = storyLocked]

RECURSIVE filterOut(_, _)
filterOut(ps, pid) ==
  IF ps = <<>> THEN <<>>
  ELSE IF Head(ps).id = pid THEN filterOut(Tail(ps), pid)
  ELSE <<Head(ps)>> \o filterOut(Tail(ps), pid)

removeParticipantModify(session, pid) ==
  [session EXCEPT !.participants = filterOut(@, pid)]

\* obj[k] = v on a JSON object: the property is added when it is missing
setProperty(obj, k, v) ==
  [f \in DOMAIN obj \cup {k} |-> IF f = k THEN v ELSE obj[f]]

\* participant.lastHeartbeat as a list: empty when the property is missing
lastHeartbeatOf(participant) ==
  IF "lastHeartbeat" \in DOMAIN participant
  THEN <<participant.lastHeartbeat>> ELSE <<>>

\* updateAvatar that gives the avatar to everybody in the session
updateAvatarModify_Everybody(session, pid, avatar) ==
  [session EXCEPT !.participants =
     [i \in DOMAIN @ |-> [@[i] EXCEPT !.avatar = avatar]]]

updateAvatarModify(session, pid, avatar) ==
  [session EXCEPT
     !.participants[findIndex(session.participants, pid)].avatar = avatar]

\* updateHeartbeat that records the first heartbeat only
updateHeartbeatModify_FirstOnly(session, pid, t) ==
  [session EXCEPT
     !.participants[findIndex(session.participants, pid)] =
        IF lastHeartbeatOf(@) = <<>> THEN setProperty(@, "lastHeartbeat", t)
        ELSE @]

\* updateHeartbeat that also takes the participant's vote back
updateHeartbeatModify_ClearsVote(session, pid, t) ==
  [session EXCEPT
     !.participants[findIndex(session.participants, pid)] =
        setProperty([@ EXCEPT !.vote = NULL], "lastHeartbeat", t)]

updateHeartbeatModify(session, pid, t) ==
  [session EXCEPT
     !.participants[findIndex(session.participants, pid)] =
        setProperty(@, "lastHeartbeat", t)]

\* ------------------------------------------------------------ the calls
\* A call is [op, sid, pid, name, role, avatar, arg, flag]; unused fields
\* hold "" / FALSE.
Call(op, sid, pid, name, role, avatar, arg, flag) ==
  [op |-> op, sid |-> sid, pid |-> pid, name |-> name, role |-> role,
   avatar |-> avatar, arg |-> arg, flag |-> flag]

NoCall == Call("none", "", "", "", "", "", "", FALSE)

\* what `last` keeps of a call: the operation, the session and participant it
\* addressed, its value and flag arguments and what it returned
Returned(call, ok) ==
  [op |-> call.op, sid |-> call.sid, pid |-> call.pid, arg |-> call.arg,
   flag |-> call.flag, ok |-> ok]

\* the keyspace after `call` ran alone at time t
RunStore(st, call, t) ==
  LET sid == call.sid
      has == sid \in DOMAIN st
  IN
  CASE call.op = "createSession" ->
         updateSession(st, createSession(sid, call.name, t), t)
    [] call.op = "addParticipant" ->
         LET session == IF has THEN st[sid] ELSE createSession(sid, DefaultSessionName, t)
         IN updateSession(st, addParticipantModify(session, call.pid, call.name,
                                                   call.role, call.avatar), t)
    [] call.op = "vote" ->
         IF has /\ voteAllowed(st[sid], call.pid)
         THEN updateSession(st, voteModify(st[sid], call.pid, call.arg), t)
         ELSE st
    [] call.op = "reveal" ->
         IF has THEN updateSession(st, revealModify(st[sid]), t) ELSE st
    [] call.op = "reset" ->
         IF has THEN updateSession(st, resetModify(st[sid]), t) ELSE st
    [] call.op = "updateStory" ->
         IF has THEN updateSession(st, updateStoryModify(st[sid], call.arg, call.flag), t)
         ELSE st
    [] call.op = "removeParticipant" ->
         IF has /\ findIndex(st[sid].participants, call.pid) > 0
         THEN updateSession(st, removeParticipantModify(st[sid], call.pid), t)
         ELSE st
    [] call.op = "updateAvatar" ->
         IF has /\ findIndex(st[sid].participants, call.pid) > 0
         THEN updateSession(st, updateAvatarModify(st[sid], call.pid, call.avatar), t)
         ELSE st
    [] call.op = "updateHeartbeat" ->
         IF has /\ findIndex(st[sid].participants, call.pid) > 0
         THEN updateSession(st, updateHeartbeatModify(st[sid], call.pid, t), t)
         ELSE st
    [] call.op = "deleteSession" ->
         [k \in DOMAIN st \ {sid} |-> st[k]]
    [] OTHER -> st

\* the value `call` returns when it runs alone (a non-null result is TRUE)
RunResult(st, call) ==
  LET sid == call.sid
      has == sid \in DOMAIN st
  IN
  CASE call.op \in {"createSession", "addParticipant", "deleteSession"} -> TRUE
    [] call.op = "vote" -> has /\ voteAllowed(st[sid], call.pid)
    [] call.op \in {"reveal", "reset", "updateStory"} -> has
    [] call.op \in {"removeParticipant", "updateAvatar", "updateHeartbeat"} ->
         has /\ findIndex(st[sid].participants, call.pid) > 0
    [] OTHER -> FALSE

\* a call in flight: the call, where it stands, the session object it holds
\* (<<>> before getSession returned or when it returned null) and its result
ProcIds == {"a", "b"}

Proc(call, pc, local, ok) == [call |-> call, pc |-> pc, local |-> local, ok |-> ok]

NoProcs == [p \in {} |-> Proc(NoCall, "done", <<>>, FALSE)]

\* ------------------------------------------- Spec: one call at a time
CreateSession(sid, name) ==
  LET call == Call("createSession", sid, "", name, "", "", "", FALSE) IN
  /\ store' = RunStore(store, call, now)
  /\ last' = Returned(call, RunResult(store, call))
  /\ pushed' = <<>>
  /\ UNCHANGED <<now, procs, base, sessions, storeSessions, client, socketToParticipant>>

AddParticipant(sid, pid, name, role, avatar) ==
  LET call == Call("addParticipant", sid, pid, name, role, avatar, "", FALSE) IN
  /\ store' = RunStore(store, call, now)
  /\ last' = Returned(call, RunResult(store, call))
  /\ pushed' = <<>>
  /\ UNCHANGED <<now, procs, base, sessions, storeSessions, client, socketToParticipant>>

Vote(sid, pid, voteValue) ==
  LET call == Call("vote", sid, pid, "", "", "", voteValue, FALSE) IN
  /\ store' = RunStore(store, call, now)
  /\ last' = Returned(call, RunResult(store, call))
  /\ pushed' = <<>>
  /\ UNCHANGED <<now, procs, base, sessions, storeSessions, client, socketToParticipant>>

Reveal(sid) ==
  LET call == Call("reveal", sid, "", "", "", "", "", FALSE) IN
  /\ store' = RunStore(store, call, now)
  /\ last' = Returned(call, RunResult(store, call))
  /\ pushed' = <<>>
  /\ UNCHANGED <<now, procs, base, sessions, storeSessions, client, socketToParticipant>>

Reset(sid) ==
  LET call == Call("reset", sid, "", "", "", "", "", FALSE) IN
  /\ store' = RunStore(store, call, now)
  /\ last' = Returned(call, RunResult(store, call))
  /\ pushed' = <<>>
  /\ UNCHANGED <<now, procs, base, sessions, storeSessions, client, socketToParticipant>>

UpdateStory(sid, story, storyLocked) ==
  LET call == Call("updateStory", sid, "", "", "", "", story, storyLocked) IN
  /\ store' = RunStore(store, call, now)
  /\ last' = Returned(call, RunResult(store, call))
  /\ pushed' = <<>>
  /\ UNCHANGED <<now, procs, base, sessions, storeSessions, client, socketToParticipant>>

RemoveParticipant(sid, pid) ==
  LET call == Call("removeParticipant", sid, pid, "", "", "", "", FALSE) IN
  /\ store' = RunStore(store, call, now)
  /\ last' = Returned(call, RunResult(store, call))
  /\ pushed' = <<>>
  /\ UNCHANGED <<now, procs, base, sessions, storeSessions, client, socketToParticipant>>

UpdateAvatar(sid, pid, avatar) ==
  LET call == Call("updateAvatar", sid, pid, "", "", avatar, avatar, FALSE) IN
  /\ store' = RunStore(store, call, now)
  /\ last' = Returned(call, RunResult(store, call))
  /\ pushed' = <<>>
  /\ UNCHANGED <<now, procs, base, sessions, storeSessions, client, socketToParticipant>>

UpdateHeartbeat(sid, pid) ==
  LET call == Call("updateHeartbeat", sid, pid, "", "", "", "", FALSE) IN
  /\ store' = RunStore(store, call, now)
  /\ last' = Returned(call, RunResult(store, call))
  /\ pushed' = <<>>
  /\ UNCHANGED <<now, procs, base, sessions, storeSessions, client, socketToParticipant>>

DeleteSession(sid) ==
  LET call == Call("deleteSession", sid, "", "", "", "", "", FALSE) IN
  /\ store' = RunStore(store, call, now)
  /\ last' = Returned(call, RunResult(store, call))
  /\ pushed' = <<>>
  /\ UNCHANGED <<now, procs, base, sessions, storeSessions, client, socketToParticipant>>

\* a route's broadcast that is sent whether the call succeeded or not
Trigger_Always(st, sid, ok) ==
  <<[channel |-> sid, event |-> "session-state",
     data |-> IF sid \in DOMAIN st THEN <<st[sid]>> ELSE <<>>]>>

\* the end of a route: nothing after an error response; else
\* getSession(sessionId) and pusher.trigger(`session-${sessionId}`,
\* 'session-state', session), the data being <<>> for null
Trigger(st, sid, ok) ==
  IF ok
  THEN <<[channel |-> sid, event |-> "session-state",
          data |-> IF sid \in DOMAIN st THEN <<st[sid]>> ELSE <<>>]>>
  ELSE <<>>

\* POST /api/sessions/[id]/vote: 400 when participantId or vote is falsy,
\* else vote(), 400 when it returns false, else the broadcast
VoteRoute(sid, pid, voteValue) ==
  LET call == Call("vote", sid, pid, "", "", "", voteValue, FALSE)
      accepted == pid # "" /\ voteValue # NULL /\ voteValue # ""
  IN
  /\ store' = IF accepted THEN RunStore(store, call, now) ELSE store
  /\ last' = Returned([call EXCEPT !.op = "POST vote"],
                      accepted /\ RunResult(store, call))
  /\ pushed' = Trigger(store', sid, accepted /\ RunResult(store, call))
  /\ UNCHANGED <<now, procs, base, sessions, storeSessions, client, socketToParticipant>>

Tick ==
  /\ now < MaxTime
  /\ now' = now + 1
  /\ last' = Returned(Call("tick", "", "", "", "", "", "", FALSE), TRUE)
  /\ pushed' = <<>>
  /\ UNCHANGED <<store, procs, base, sessions, storeSessions, client, socketToParticipant>>

NoSessions == [k \in {} |-> createSession("", "", 0)]

\* SessionManager, SessionStore: a session object as the classes build it
mgrSession(id, name, t) ==
  [id |-> id, name |-> name, participants |-> <<>>, revealed |-> FALSE,
   lastActivity |-> t]

storeSession(id, name) ==
  [id |-> id, name |-> name, participants |-> <<>>, revealed |-> FALSE]

NoMgrSessions == [k \in {} |-> mgrSession("", "", 0)]

NoStoreSessions == [k \in {} |-> storeSession("", "")]

\* The browser side (page.tsx, votingUtils) is not part of the server's
\* specifications: there the client state is this placeholder.
NoClient == [fn |-> "none"]

\* server.js: the connected sockets; none has joined
Sockets == {"k1"}

\* socketToParticipant.set(socket.id, { sessionId, participantId })
socketSet(map, socket, sid, pid) ==
  [k \in DOMAIN map \cup {socket} |->
     IF k = socket THEN [sessionId |-> sid, participantId |-> pid] ELSE map[k]]

NoSockets == [k \in {} |-> [sessionId |-> "", participantId |-> ""]]

Init ==
  /\ store = NoSessions
  /\ now = 0
  /\ last = Returned(NoCall, TRUE)
  /\ procs = NoProcs
  /\ base = NoSessions
  /\ sessions = NoMgrSessions
  /\ storeSessions = NoStoreSessions
  /\ pushed = <<>>
  /\ client = NoClient
  /\ socketToParticipant = NoSockets

Next ==
  \/ \E sid \in SessionIds : CreateSession(sid, CreatedSessionName)
  \/ \E sid \in SessionIds, pid \in ParticipantIds, name \in Names,
        role \in Roles, avatar \in Avatars :
       AddParticipant(sid, pid, name, role, avatar)
  \/ \E sid \in SessionIds, pid \in ParticipantIds, v \in VoteValues :
       Vote(sid, pid, v)
  \/ \E sid \in SessionIds, pid \in ParticipantIds, v \in VoteValues :
       VoteRoute(sid, pid, v)
  \/ \E sid \in SessionIds : Reveal(sid)
  \/ \E sid \in SessionIds : Reset(sid)
  \/ \E sid \in SessionIds, story \in Stories, locked \in BOOLEAN :
       UpdateStory(sid, story, locked)
  \/ \E sid \in SessionIds, pid \in ParticipantIds : RemoveParticipant(sid, pid)
  \/ \E sid \in SessionIds : DeleteSession(sid)
  \/ Tick

Spec == Init /\ [][Next]_vars

\* ----------- ProfileSpec: joins, votes, avatars, heartbeats and leaves
ProfileNext ==
  \/ \E sid \in SessionIds, pid \in ParticipantIds, name \in {"Alice"},
        role \in Roles, avatar \in Avatars :
       AddParticipant(sid, pid, name, role, avatar)
  \/ \E sid \in SessionIds, pid \in ParticipantIds, v \in VoteValues :
       Vote(sid, pid, v)
  \/ \E sid \in SessionIds, pid \in ParticipantIds, avatar \in Avatars :
       UpdateAvatar(sid, pid, avatar)
  \/ \E sid \in SessionIds, pid \in ParticipantIds : UpdateHeartbeat(sid, pid)
  \/ \E sid \in SessionIds, pid \in ParticipantIds : RemoveParticipant(sid, pid)
  \/ \E sid \in SessionIds : DeleteSession(sid)
  \/ Tick

ProfileSpec == Init /\ [][ProfileNext]_vars

\* --------------------------------------- ConcSpec: two calls in flight
\* What a call does between getSession returning `found` (<<>> for null) and
\* its next await: it gives up, or it holds the modified session object that
\* updateSession will write.
AfterGet(call, found) ==
  LET has == found # <<>>
      session == found[1]
  IN
  CASE call.op = "addParticipant" ->
         IF has
         THEN Proc(call, "set", <<addParticipantModify(session, call.pid, call.name,
                                                       call.role, call.avatar)>>, TRUE)
         ELSE Proc(call, "create", <<>>, TRUE)
    [] call.op = "vote" ->
         IF has /\ voteAllowed(session, call.pid)
         THEN Proc(call, "set", <<voteModify(session, call.pid, call.arg)>>, TRUE)
         ELSE Proc(call, "done", <<>>, FALSE)
    [] call.op = "reveal" ->
         IF has THEN Proc(call, "set", <<revealModify(session)>>, TRUE)
         ELSE Proc(call, "done", <<>>, FALSE)
    [] call.op = "reset" ->
         IF has THEN Proc(call, "set", <<resetModify(session)>>, TRUE)
         ELSE Proc(call, "done", <<>>, FALSE)
    [] call.op = "updateStory" ->
         IF has THEN Proc(call, "set", <<updateStoryModify(session, call.arg, call.flag)>>, TRUE)
         ELSE Proc(call, "done", <<>>, FALSE)
    [] call.op = "removeParticipant" ->
         IF has /\ findIndex(session.participants, call.pid) > 0
         THEN Proc(call, "set", <<removeParticipantModify(session, call.pid)>>, TRUE)
         ELSE Proc(call, "done", <<>>, FALSE)
    [] call.op = "updateHeartbeat" ->
         IF has /\ findIndex(session.participants, call.pid) > 0
         THEN Proc(call, "set", <<updateHeartbeatModify(session, call.pid, now)>>, TRUE)
         ELSE Proc(call, "done", <<>>, FALSE)
    [] OTHER -> Proc(call, "done", <<>>, FALSE)

\* await getSession(sessionId): the GET of the key
GetSession(p) ==
  /\ p \in DOMAIN procs
  /\ procs[p].pc = "get"
  /\ LET sid == procs[p].call.sid
         found == IF sid \in DOMAIN store THEN <<store[sid]>> ELSE <<>>
     IN procs' = [procs EXCEPT ![p] = AfterGet(procs[p].call, found)]
  /\ UNCHANGED <<store, now, last, base, sessions, storeSessions, pushed, client, socketToParticipant>>

\* addParticipant on an unknown id: await createSession(sessionId,
\* 'Planning Session'), a SET of the fresh record, which the call goes on with
CreateMissing(p) ==
  /\ p \in DOMAIN procs
  /\ procs[p].pc = "create"
  /\ LET call == procs[p].call
         fresh == createSession(call.sid, DefaultSessionName, now)
     IN /\ store' = updateSession(store, fresh, now)
        /\ procs' = [procs EXCEPT ![p] =
             Proc(call, "set", <<addParticipantModify(fresh, call.pid, call.name,
                                                      call.role, call.avatar)>>, TRUE)]
  /\ UNCHANGED <<now, last, base, sessions, storeSessions, pushed, client, socketToParticipant>>

\* await updateSession(session): the SET of the object the call holds
SetSession(p) ==
  /\ p \in DOMAIN procs
  /\ procs[p].pc = "set"
  /\ store' = updateSession(store, procs[p].local[1], now)
  /\ procs' = [procs EXCEPT ![p] = Proc(procs[p].call, "done", <<>>, TRUE)]
  /\ UNCHANGED <<now, last, base, sessions, storeSessions, pushed, client, socketToParticipant>>

AllDone == \A p \in DOMAIN procs : procs[p].pc = "done"

\* two requests arrive together
Issue(callA, callB) ==
  /\ procs # NoProcs
  /\ AllDone
  /\ procs' = [p \in ProcIds |->
                 Proc(IF p = "a" THEN callA ELSE callB, "get", <<>>, FALSE)]
  /\ base' = store
  /\ UNCHANGED <<store, now, last, sessions, storeSessions, pushed, client, socketToParticipant>>

\* the mutating calls requests are drawn from: join, vote, reveal, reset,
\* updateStory and leave, for either participant
ConcCalls ==
  << Call("addParticipant", "s1", "p1", "Alice", "estimator", "panda", "", FALSE),
     Call("addParticipant", "s1", "p2", "Bob", "estimator", "panda", "", FALSE),
     Call("vote", "s1", "p1", "", "", "", "5", FALSE),
     Call("vote", "s1", "p2", "", "", "", "5", FALSE),
     Call("reveal", "s1", "", "", "", "", "", FALSE),
     Call("reset", "s1", "", "", "", "", "", FALSE),
     Call("updateStory", "s1", "", "", "", "", "Login", TRUE),
     Call("removeParticipant", "s1", "p1", "", "", "", "", FALSE),
     Call("removeParticipant", "s1", "p2", "", "", "", "", FALSE) >>

ConcInit ==
  /\ store = NoSessions
  /\ now = 0
  /\ last = Returned(NoCall, TRUE)
  /\ procs = [p \in ProcIds |-> Proc(NoCall, "done", <<>>, FALSE)]
  /\ base = NoSessions
  /\ sessions = NoMgrSessions
  /\ storeSessions = NoStoreSessions
  /\ pushed = <<>>
  /\ client = NoClient
  /\ socketToParticipant = NoSockets

ConcNext ==
  \/ \E i \in DOMAIN ConcCalls : \E j \in i..Len(ConcCalls) :
       Issue(ConcCalls[i], ConcCalls[j])
  \/ \E p \in ProcIds : GetSession(p)
  \/ \E p \in ProcIds : CreateMissing(p)
  \/ \E p \in ProcIds : SetSession(p)

ConcSpec == ConcInit /\ [][ConcNext]_vars

\* ------------------ RouteSpec: the HTTP routes in front of the functions
\* POST /api/sessions: 400 without a name, else createSession under a fresh
\* random UUID; no broadcast
CreateRoute(sid, name) ==
  LET call == Call("createSession", sid, "", name, "", "", "", FALSE)
      accepted == name # ""
  IN
  /\ sid \notin DOMAIN store
  /\ store' = IF accepted THEN RunStore(store, call, now) ELSE store
  /\ last' = Returned([call EXCEPT !.op = "POST sessions"], accepted)
  /\ pushed' = <<>>
  /\ UNCHANGED <<now, procs, base, sessions, storeSessions, client, socketToParticipant>>

\* POST /api/sessions/[id]/join: 400 without name or participantId, else
\* addParticipant with role || 'estimator', then the broadcast
JoinRoute(sid, pid, name, role) ==
  LET call == Call("addParticipant", sid, pid, name,
                   IF role \in {Undefined, ""} THEN "estimator" ELSE role,
                   Undefined, "", FALSE)
      accepted == name # "" /\ pid # ""
  IN
  /\ store' = IF accepted THEN RunStore(store, call, now) ELSE store
  /\ last' = Returned([call EXCEPT !.op = "POST join"], accepted)
  /\ pushed' = Trigger(store', sid, accepted)
  /\ UNCHANGED <<now, procs, base, sessions, storeSessions, client, socketToParticipant>>

\* POST /api/sessions/[id]/story: 400 when story is not a string, else
\* updateStory with storyLocked ?? false, 400 when it returns false, else the
\* broadcast
StoryRoute(sid, story, hasStoryLocked, storyLocked) ==
  LET call == Call("updateStory", sid, "", "", "", "", story,
                   hasStoryLocked /\ storyLocked)
      accepted == story # Undefined
  IN
  /\ store' = IF accepted THEN RunStore(store, call, now) ELSE store
  /\ last' = Returned([call EXCEPT !.op = "POST story"],
                      accepted /\ RunResult(store, call))
  /\ pushed' = Trigger(store', sid, accepted /\ RunResult(store, call))
  /\ UNCHANGED <<now, procs, base, sessions, storeSessions, client, socketToParticipant>>

\* POST /api/sessions/[id]/reset: reset(), 404 when it returns false, else
\* the broadcast
ResetRoute(sid) ==
  LET call == Call("reset", sid, "", "", "", "", "", FALSE) IN
  /\ store' = RunStore(store, call, now)
  /\ last' = Returned([call EXCEPT !.op = "POST reset"], RunResult(store, call))
  /\ pushed' = Trigger(store', sid, RunResult(store, call))
  /\ UNCHANGED <<now, procs, base, sessions, storeSessions, client, socketToParticipant>>

\* POST /api/sessions/[id]/reveal, as the reset route with reveal()
RevealRoute(sid) ==
  LET call == Call("reveal", sid, "", "", "", "", "", FALSE) IN
  /\ store' = RunStore(store, call, now)
  /\ last' = Returned([call EXCEPT !.op = "POST reveal"], RunResult(store, call))
  /\ pushed' = Trigger(store', sid, RunResult(store, call))
  /\ UNCHANGED <<now, procs, base, sessions, storeSessions, client, socketToParticipant>>

\* POST /api/sessions/[id]/leave: 400 without participantId, else
\* removeParticipant, 400 when it returns false, else the broadcast
LeaveRoute(sid, pid) ==
  LET call == Call("removeParticipant", sid, pid, "", "", "", "", FALSE)
      accepted == pid # ""
  IN
  /\ store' = IF accepted THEN RunStore(store, call, now) ELSE store
  /\ last' = Returned([call EXCEPT !.op = "POST leave"],
                      accepted /\ RunResult(store, call))
  /\ pushed' = Trigger(store', sid, accepted /\ RunResult(store, call))
  /\ UNCHANGED <<now, procs, base, sessions, storeSessions, client, socketToParticipant>>

\* POST /api/sessions/[id]/avatar: 400 without participantId or avatar, else
\* updateAvatar, 400 when it returns false, else the broadcast
AvatarRoute(sid, pid, avatar) ==
  LET call == Call("updateAvatar", sid, pid, "", "", avatar, avatar, FALSE)
      accepted == pid # "" /\ avatar # ""
  IN
  /\ store' = IF accepted THEN RunStore(store, call, now) ELSE store
  /\ last' = Returned([call EXCEPT !.op = "POST avatar"],
                      accepted /\ RunResult(store, call))
  /\ pushed' = Trigger(store', sid, accepted /\ RunResult(store, call))
  /\ UNCHANGED <<now, procs, base, sessions, storeSessions, client, socketToParticipant>>

\* what a request body may carry as participantId, name, role, story, avatar
BodyParticipantIds == ParticipantIds \cup {""}
BodyNames == {"Alice", ""}
BodyRoles == Roles \cup {Undefined}
BodyStories == {"Login", "", Undefined}
BodyAvatars == {"panda", ""}

RouteNext ==
  \/ \E sid \in SessionIds, name \in {CreatedSessionName, ""} : CreateRoute(sid, name)
  \/ \E sid \in SessionIds, pid \in BodyParticipantIds, name \in BodyNames,
        role \in BodyRoles : JoinRoute(sid, pid, name, role)
  \/ \E sid \in SessionIds, pid \in BodyParticipantIds, v \in VoteValues :
       VoteRoute(sid, pid, v)
  \/ \E sid \in SessionIds, story \in BodyStories, has \in BOOLEAN,
        locked \in BOOLEAN : StoryRoute(sid, story, has, locked)
  \/ \E sid \in SessionIds : RevealRoute(sid)
  \/ \E sid \in SessionIds : ResetRoute(sid)
  \/ \E sid \in SessionIds, pid \in BodyParticipantIds : LeaveRoute(sid, pid)
  \/ \E sid \in SessionIds, pid \in BodyParticipantIds, avatar \in BodyAvatars :
       AvatarRoute(sid, pid, avatar)

RouteSpec == Init /\ [][RouteNext]_vars

\* --------------------- IsoSpec: two sessions, calls in flight on both
IsoSessionIds == {"s1", "s2"}

\* a join, a vote and a reveal addressed to session sid
IsoCalls(sid) ==
  { Call("addParticipant", sid, "p1", "Alice", "estimator", "panda", "", FALSE),
    Call("vote", sid, "p1", "", "", "", "5", FALSE),
    Call("reveal", sid, "", "", "", "", "", FALSE) }

\* two requests arrive together, one for each session
IsoIssue(callA, callB) ==
  /\ AllDone
  /\ procs' = [p \in ProcIds |->
                 Proc(IF p = "a" THEN callA ELSE callB, "get", <<>>, FALSE)]
  /\ UNCHANGED <<store, now, last, base, sessions, storeSessions, pushed, client, socketToParticipant>>

IsoNext ==
  \/ \E callA \in IsoCalls("s1"), callB \in IsoCalls("s2") : IsoIssue(callA, callB)
  \/ \E p \in ProcIds : GetSession(p)
  \/ \E p \in ProcIds : CreateMissing(p)
  \/ \E p \in ProcIds : SetSession(p)
  \/ \E sid \in IsoSessionIds : CreateSession(sid, CreatedSessionName)
  \/ \E sid \in IsoSessionIds : DeleteSession(sid)
  \/ Tick

IsoSpec == ConcInit /\ [][IsoNext]_vars

\* ------------------------- MgrSpec: the SessionManager class (server.js)

\* options.sessionExpiryMs, in ticks of the model clock
sessionExpiryMs == 0

\* what a socket message may carry as role
MgrRoleInputs == Roles \cup {Undefined}

\* Map.prototype.set on the participants Map: an existing key keeps its
\* position, a new key goes to the end
mapSet(participants, p) ==
  LET i == findIndex(participants, p.id)
  IN  IF i > 0 THEN [participants EXCEPT ![i] = p]
      ELSE Append(participants, p)

\* Map.prototype.clear in the place of delete
mapDelete_Clear(participants, pid) == <<>>

RECURSIVE mapDelete(_, _)
\* Map.prototype.delete on the participants Map
mapDelete(participants, pid) ==
  IF participants = <<>> THEN <<>>
  ELSE IF Head(participants).id = pid THEN mapDelete(Tail(participants), pid)
  ELSE <<Head(participants)>> \o mapDelete(Tail(participants), pid)

mapPut(m, k, v) == [x \in DOMAIN m \cup {k} |-> IF x = k THEN v ELSE m[x]]

mapRemove(m, k) == [x \in DOMAIN m \ {k} |-> m[x]]

\* SessionManager.addParticipant on the session object it found or created
mgrAddParticipantModify(session, pid, name, role, t) ==
  LET participantRole == IF role = "observer" THEN "observer" ELSE "estimator"
  IN  [session EXCEPT
         !.participants = mapSet(@, [id |-> pid, name |-> name,
                                     role |-> participantRole, vote |-> NULL]),
         !.lastActivity = t]

mgrVoteAllowed(session, pid) ==
  LET i == findIndex(session.participants, pid)
  IN  i > 0 /\ session.participants[i].role = "estimator"

mgrVoteModify(session, pid, v, t) ==
  [session EXCEPT !.participants[findIndex(session.participants, pid)].vote = v,
                  !.lastActivity = t]

mgrResetModify(session, t) ==
  [session EXCEPT
     !.revealed = FALSE,
     !.participants = [i \in DOMAIN @ |->
                         IF @[i].role = "estimator"
                         THEN [@[i] EXCEPT !.vote = NULL] ELSE @[i]],
     !.lastActivity = t]

MgrReturned(op, sid, pid, arg, ok) ==
  [op |-> op, sid |-> sid, pid |-> pid, arg |-> arg, flag |-> FALSE, ok |-> ok]

\* SessionManager.getSessionState: the snapshot sent to the room
getSessionState(session) ==
  [id |-> session.id, name |-> session.name,
   participants |-> session.participants, revealed |-> session.revealed]

\* io.to(sessionId).emit('session-state', getSessionState(sessionId)) when
\* the handler reaches it; the data is <<>> for null
Emit(ss, sid, reached) ==
  IF reached
  THEN <<[channel |-> sid, event |-> "session-state",
          data |-> IF sid \in DOMAIN ss THEN <<getSessionState(ss[sid])>> ELSE <<>>]>>
  ELSE <<>>

MgrCreateSession(sid, name) ==
  /\ sessions' = mapPut(sessions, sid, mgrSession(sid, name, now))
  /\ last' = MgrReturned("mgr.createSession", sid, "", name, TRUE)
  /\ pushed' = <<>>
  /\ UNCHANGED <<store, now, procs, base, storeSessions, client, socketToParticipant>>

MgrAddParticipant(sid, pid, name, role) ==
  LET session == IF sid \in DOMAIN sessions THEN sessions[sid]
                 ELSE mgrSession(sid, DefaultSessionName, now)
  IN  /\ sessions' = mapPut(sessions, sid,
                            mgrAddParticipantModify(session, pid, name, role, now))
      /\ last' = MgrReturned("mgr.addParticipant", sid, pid, name, TRUE)
      /\ pushed' = <<>>
      /\ UNCHANGED <<store, now, procs, base, storeSessions, client, socketToParticipant>>

\* server.js 'rejoin-session': a known participant only rejoins the room, an
\* unknown one is added again
MgrRejoinSession(socket, sid, pid, name, role) ==
  LET existing == /\ sid \in DOMAIN sessions
                  /\ findIndex(sessions[sid].participants, pid) > 0
      session == IF sid \in DOMAIN sessions THEN sessions[sid]
                 ELSE mgrSession(sid, DefaultSessionName, now)
  IN  /\ sessions' = IF existing THEN sessions
                     ELSE mapPut(sessions, sid,
                            mgrAddParticipantModify(session, pid, name, role, now))
      /\ socketToParticipant' = socketSet(socketToParticipant, socket, sid, pid)
      /\ last' = MgrReturned("rejoin-session", sid, pid, name, ~existing)
      /\ pushed' = Emit(sessions', sid, TRUE)
      /\ UNCHANGED <<store, now, procs, base, storeSessions, client>>

MgrRemoveParticipant(sid, pid) ==
  LET found == sid \in DOMAIN sessions
      had == found /\ findIndex(sessions[sid].participants, pid) > 0
  IN  /\ sessions' = IF found
                     THEN [sessions EXCEPT ![sid].participants = mapDelete(@, pid)]
                     ELSE sessions
      /\ last' = MgrReturned("mgr.removeParticipant", sid, pid, "", had)
      /\ pushed' = <<>>
      /\ UNCHANGED <<store, now, procs, base, storeSessions, client, socketToParticipant>>

MgrVote(sid, pid, v) ==
  LET ok == sid \in DOMAIN sessions /\ mgrVoteAllowed(sessions[sid], pid)
  IN  /\ sessions' = IF ok
                     THEN [sessions EXCEPT ![sid] = mgrVoteModify(@, pid, v, now)]
                     ELSE sessions
      /\ last' = MgrReturned("mgr.vote", sid, pid, v, ok)
      /\ pushed' = <<>>
      /\ UNCHANGED <<store, now, procs, base, storeSessions, client, socketToParticipant>>

MgrReveal(sid) ==
  LET ok == sid \in DOMAIN sessions
  IN  /\ sessions' = IF ok
                     THEN [sessions EXCEPT ![sid].revealed = TRUE,
                                           ![sid].lastActivity = now]
                     ELSE sessions
      /\ last' = MgrReturned("mgr.reveal", sid, "", "", ok)
      /\ pushed' = <<>>
      /\ UNCHANGED <<store, now, procs, base, storeSessions, client, socketToParticipant>>

MgrReset(sid) ==
  LET ok == sid \in DOMAIN sessions
  IN  /\ sessions' = IF ok
                     THEN [sessions EXCEPT ![sid] = mgrResetModify(@, now)]
                     ELSE sessions
      /\ last' = MgrReturned("mgr.reset", sid, "", "", ok)
      /\ pushed' = <<>>
      /\ UNCHANGED <<store, now, procs, base, storeSessions, client, socketToParticipant>>

MgrDeleteSession(sid) ==
  /\ sessions' = mapRemove(sessions, sid)
  /\ last' = MgrReturned("mgr.deleteSession", sid, "", "", sid \in DOMAIN sessions)
  /\ pushed' = <<>>
  /\ UNCHANGED <<store, now, procs, base, storeSessions, client, socketToParticipant>>

\* the cleanup timer's callback
\* the test of cleanupExpiredSessions with its operands exchanged
isExpired_Reversed(session, t) == session.lastActivity - t > sessionExpiryMs

\* now - session.lastActivity.getTime() > this.sessionExpiryMs
isExpired(session, t) == t - session.lastActivity > sessionExpiryMs

MgrCleanupExpiredSessions ==
  LET expired == {sid \in DOMAIN sessions : isExpired(sessions[sid], now)}
  IN  /\ sessions' = [sid \in DOMAIN sessions \ expired |-> sessions[sid]]
      /\ last' = MgrReturned("mgr.cleanupExpiredSessions", "", "", "",
                             expired # {})
      /\ pushed' = <<>>
      /\ UNCHANGED <<store, now, procs, base, storeSessions, client, socketToParticipant>>

\* server.js 'join-session': addParticipant under the given id (one is
\* generated when the message has none), then the emit
SocketJoin(socket, sid, pid, name, role) ==
  LET session == IF sid \in DOMAIN sessions THEN sessions[sid]
                 ELSE mgrSession(sid, DefaultSessionName, now)
  IN  /\ sessions' = mapPut(sessions, sid,
                            mgrAddParticipantModify(session, pid, name, role, now))
      /\ socketToParticipant' = socketSet(socketToParticipant, socket, sid, pid)
      /\ last' = MgrReturned("socket join-session", sid, pid, name, TRUE)
      /\ pushed' = Emit(sessions', sid, TRUE)
      /\ UNCHANGED <<store, now, procs, base, storeSessions, client>>

\* server.js 'vote': the participant is the one the socket joined as
\* (mapping, "" when socketToParticipant has no entry for the socket); the
\* emit only when vote() returned true
SocketVote(socket, sid, v) ==
  LET mapping == IF socket \in DOMAIN socketToParticipant
                 THEN socketToParticipant[socket].participantId ELSE ""
      ok == /\ mapping # ""
            /\ sid \in DOMAIN sessions
            /\ mgrVoteAllowed(sessions[sid], mapping)
  IN  /\ sessions' = IF ok
                     THEN [sessions EXCEPT ![sid] = mgrVoteModify(@, mapping, v, now)]
                     ELSE sessions
      /\ last' = MgrReturned("socket vote", sid, mapping, v, ok)
      /\ pushed' = Emit(sessions', sid, ok)
      /\ UNCHANGED <<store, now, procs, base, storeSessions, client, socketToParticipant>>

\* server.js 'reveal'
SocketReveal(sid) ==
  LET ok == sid \in DOMAIN sessions
  IN  /\ sessions' = IF ok
                     THEN [sessions EXCEPT ![sid].revealed = TRUE,
                                           ![sid].lastActivity = now]
                     ELSE sessions
      /\ last' = MgrReturned("socket reveal", sid, "", "", ok)
      /\ pushed' = Emit(sessions', sid, ok)
      /\ UNCHANGED <<store, now, procs, base, storeSessions, client, socketToParticipant>>

\* server.js 'reset'
SocketReset(sid) ==
  LET ok == sid \in DOMAIN sessions
  IN  /\ sessions' = IF ok
                     THEN [sessions EXCEPT ![sid] = mgrResetModify(@, now)]
                     ELSE sessions
      /\ last' = MgrReturned("socket reset", sid, "", "", ok)
      /\ pushed' = Emit(sessions', sid, ok)
      /\ UNCHANGED <<store, now, procs, base, storeSessions, client, socketToParticipant>>

\* a disconnect that also takes the socket's participant out of its session
SocketDisconnect_RemovesParticipant(socket) ==
  LET known == socket \in DOMAIN socketToParticipant
      sid == socketToParticipant[socket].sessionId
      pid == socketToParticipant[socket].participantId
  IN  /\ sessions' =
           IF known /\ sid \in DOMAIN sessions
           THEN [sessions EXCEPT ![sid].participants = mapDelete(@, pid)]
           ELSE sessions
      /\ socketToParticipant' =
           [k \in DOMAIN socketToParticipant \ {socket} |-> socketToParticipant[k]]
      /\ last' = MgrReturned("socket disconnect", "", "", "", TRUE)
      /\ pushed' = <<>>
      /\ UNCHANGED <<store, now, procs, base, storeSessions, client>>

\* server.js 'disconnect': the participant stays, the socket's entry goes
SocketDisconnect(socket) ==
  /\ socketToParticipant' =
       [k \in DOMAIN socketToParticipant \ {socket} |-> socketToParticipant[k]]
  /\ last' = MgrReturned("socket disconnect", "", "", "", TRUE)
  /\ pushed' = <<>>
  /\ UNCHANGED <<store, now, procs, base, sessions, storeSessions, client>>

MgrNext ==
  \/ \E socket \in Sockets, sid \in SessionIds, pid \in ParticipantIds,
        name \in Names, role \in MgrRoleInputs :
       SocketJoin(socket, sid, pid, name, role)
  \/ \E socket \in Sockets, sid \in SessionIds, v \in VoteValues :
       SocketVote(socket, sid, v)
  \/ \E socket \in Sockets : SocketDisconnect(socket)
  \/ \E sid \in SessionIds : SocketReveal(sid)
  \/ \E sid \in SessionIds : SocketReset(sid)
  \/ \E sid \in SessionIds, name \in {CreatedSessionName} :
       MgrCreateSession(sid, name)
  \/ \E sid \in SessionIds, pid \in ParticipantIds, name \in Names,
        role \in MgrRoleInputs : MgrAddParticipant(sid, pid, name, role)
  \/ \E sid \in SessionIds, pid \in ParticipantIds, name \in Names,
        role \in MgrRoleInputs, socket \in Sockets :
       MgrRejoinSession(socket, sid, pid, name, role)
  \/ \E sid \in SessionIds, pid \in ParticipantIds :
       MgrRemoveParticipant(sid, pid)
  \/ \E sid \in SessionIds, pid \in ParticipantIds, v \in VoteValues :
       MgrVote(sid, pid, v)
  \/ \E sid \in SessionIds : MgrReveal(sid)
  \/ \E sid \in SessionIds : MgrReset(sid)
  \/ \E sid \in SessionIds : MgrDeleteSession(sid)
  \/ MgrCleanupExpiredSessions
  \/ Tick

MgrSpec == Init /\ [][MgrNext]_vars

\* startCleanup: setInterval runs cleanupExpiredSessions again and again for
\* as long as the server lives, so a run that would delete something is not
\* put off for ever
MgrLiveSpec == MgrSpec /\ WF_vars(MgrCleanupExpiredSessions)

\* ------------------------------ StoreSpec: the SessionStore singleton

\* the Participant objects a caller may hand to SessionStore.addParticipant
StoreParticipants ==
  [id : ParticipantIds, name : Names, role : Roles, vote : VoteValues]

StoreCreateSession(sid, name) ==
  /\ storeSessions' = mapPut(storeSessions, sid, storeSession(sid, name))
  /\ last' = MgrReturned("store.createSession", sid, "", name, TRUE)
  /\ pushed' = <<>>
  /\ UNCHANGED <<store, now, procs, base, sessions, client, socketToParticipant>>

StoreAddParticipant(sid, participant) ==
  LET ok == sid \in DOMAIN storeSessions
  IN  /\ storeSessions' =
           IF ok
           THEN [storeSessions EXCEPT ![sid].participants = mapSet(@, participant)]
           ELSE storeSessions
      /\ last' = MgrReturned("store.addParticipant", sid, participant.id,
                             participant.name, ok)
      /\ pushed' = <<>>
      /\ UNCHANGED <<store, now, procs, base, sessions, client, socketToParticipant>>

StoreRemoveParticipant(sid, pid) ==
  LET found == sid \in DOMAIN storeSessions
      had == found /\ findIndex(storeSessions[sid].participants, pid) > 0
  IN  /\ storeSessions' =
           IF found
           THEN [storeSessions EXCEPT ![sid].participants = mapDelete(@, pid)]
           ELSE storeSessions
      /\ last' = MgrReturned("store.removeParticipant", sid, pid, "", had)
      /\ pushed' = <<>>
      /\ UNCHANGED <<store, now, procs, base, sessions, client, socketToParticipant>>

StoreUpdateVote(sid, pid, v) ==
  LET ok == /\ sid \in DOMAIN storeSessions
            /\ findIndex(storeSessions[sid].participants, pid) > 0
  IN  /\ storeSessions' =
           IF ok
           THEN [storeSessions EXCEPT
                   ![sid].participants[
                       findIndex(storeSessions[sid].participants, pid)].vote = v]
           ELSE storeSessions
      /\ last' = MgrReturned("store.updateVote", sid, pid, v, ok)
      /\ pushed' = <<>>
      /\ UNCHANGED <<store, now, procs, base, sessions, client, socketToParticipant>>

StoreRevealVotes(sid) ==
  LET ok == sid \in DOMAIN storeSessions
  IN  /\ storeSessions' = IF ok
                          THEN [storeSessions EXCEPT ![sid].revealed = TRUE]
                          ELSE storeSessions
      /\ last' = MgrReturned("store.revealVotes", sid, "", "", ok)
      /\ pushed' = <<>>
      /\ UNCHANGED <<store, now, procs, base, sessions, client, socketToParticipant>>

StoreResetVotes(sid) ==
  LET ok == sid \in DOMAIN storeSessions
  IN  /\ storeSessions' =
           IF ok
           THEN [storeSessions EXCEPT
                   ![sid].revealed = FALSE,
                   ![sid].participants =
                      [i \in DOMAIN @ |-> [@[i] EXCEPT !.vote = NULL]]]
           ELSE storeSessions
      /\ last' = MgrReturned("store.resetVotes", sid, "", "", ok)
      /\ pushed' = <<>>
      /\ UNCHANGED <<store, now, procs, base, sessions, client, socketToParticipant>>

StoreDeleteSession(sid) ==
  /\ storeSessions' = mapRemove(storeSessions, sid)
  /\ last' = MgrReturned("store.deleteSession", sid, "", "",
                         sid \in DOMAIN storeSessions)
  /\ pushed' = <<>>
  /\ UNCHANGED <<store, now, procs, base, sessions, client, socketToParticipant>>

StoreNext ==
  \/ \E sid \in SessionIds, name \in {CreatedSessionName} :
       StoreCreateSession(sid, name)
  \/ \E sid \in SessionIds, participant \in StoreParticipants :
       StoreAddParticipant(sid, participant)
  \/ \E sid \in SessionIds, pid \in ParticipantIds :
       StoreRemoveParticipant(sid, pid)
  \/ \E sid \in SessionIds, pid \in ParticipantIds, v \in VoteValues :
       StoreUpdateVote(sid, pid, v)
  \/ \E sid \in SessionIds : StoreRevealVotes(sid)
  \/ \E sid \in SessionIds : StoreResetVotes(sid)
  \/ \E sid \in SessionIds : StoreDeleteSession(sid)

StoreSpec == Init /\ [][StoreNext]_vars

\* ------------------------------------------------------------ properties
\* the entries of a session that carry participant id pid
Entries(session, pid) ==
  {i \in DOMAIN session.participants : session.participants[i].id = pid}

\* pid is in the session with the role that may vote
IsVoter(st, sid, pid) ==
  /\ sid \in DOMAIN st
  /\ \E i \in Entries(st[sid], pid) : st[sid].participants[i].role = "estimator"

IsObserver(st, sid, pid) ==
  /\ sid \in DOMAIN st
  /\ \E i \in Entries(st[sid], pid) : st[sid].participants[i].role = "observer"

\* every entry of pid holds vote v, and there is one
HasVote(st, sid, pid, v) ==
  /\ sid \in DOMAIN st
  /\ Entries(st[sid], pid) # {}
  /\ \A i \in Entries(st[sid], pid) : st[sid].participants[i].vote = v

\* the entries of everybody but pid are what they were
OthersUnchanged(old, new, pid) ==
  /\ Len(new.participants) = Len(old.participants)
  /\ \A i \in DOMAIN old.participants :
       old.participants[i].id # pid => new.participants[i] = old.participants[i]

\* C3: a vote() on a session that does not exist, for a participant id that
\* is not in the session, or for an observer returns false and leaves the
\* whole keyspace as it was: no session appears, no vote changes,
\* lastActivity keeps its value.
C3_RejectedVoteChangesNothing ==
  [][ (last'.op = "vote" /\ ~IsVoter(store, last'.sid, last'.pid))
        => (last'.ok = FALSE /\ store' = store) ]_vars

\* C3 witness: vote() has just returned false for an observer of a stored
\* session, after the clock moved past the session's lastActivity
C3_Witness ==
  /\ last.op = "vote" /\ last.ok = FALSE /\ last.arg # NULL
  /\ IsObserver(store, last.sid, last.pid)
  /\ store[last.sid].lastActivity < now

\* C4: in every reachable state every observer's vote is null.
C4_ObserverVoteIsNull ==
  \A sid \in DOMAIN store : \A i \in DOMAIN store[sid].participants :
    store[sid].participants[i].role = "observer"
      => store[sid].participants[i].vote = NULL

\* C5: a vote request by a voter of the session with value v, a card or
\* null, made to vote() or to the vote endpoint, succeeds, stores v as that
\* participant's vote and changes nobody else's entry.
C5_VoteRequestStoresValue ==
  [][ (last'.op \in {"vote", "POST vote"} /\ IsVoter(store, last'.sid, last'.pid))
        => /\ last'.ok
           /\ HasVote(store', last'.sid, last'.pid, last'.arg)
           /\ OthersUnchanged(store[last'.sid], store'[last'.sid], last'.pid) ]_vars

\* C6: a join with a participant id already in the session keeps the entry
\* at its place with the new name and role, the old vote and the old avatar
\* (the supplied avatar when the old one is empty), and adds no entry.
C6_RejoinKeepsVoteAndAvatar ==
  [][ \A sid \in SessionIds, pid \in ParticipantIds, name \in Names,
         role \in Roles, avatar \in Avatars :
        (/\ AddParticipant(sid, pid, name, role, avatar)
         /\ sid \in DOMAIN store
         /\ Entries(store[sid], pid) # {})
        => LET i == CHOOSE j \in Entries(store[sid], pid) : TRUE
               old == store[sid].participants[i]
           IN store'[sid].participants =
                [store[sid].participants EXCEPT ![i] =
                   [id |-> pid, name |-> name, role |-> role, vote |-> old.vote,
                    avatar |-> IF old.avatar \in {"", Undefined}
                               THEN avatar ELSE old.avatar]] ]_vars

\* C7: a join with a participant id not in the session appends one entry
\* with vote null and the supplied name, role and avatar, to a session
\* created with the default name when the id was unknown; the other entries,
\* revealed and the story fields stay.
C7_JoinAppendsOneParticipant ==
  [][ \A sid \in SessionIds, pid \in ParticipantIds, name \in Names,
         role \in Roles, avatar \in Avatars :
        (/\ AddParticipant(sid, pid, name, role, avatar)
         /\ (sid \in DOMAIN store => Entries(store[sid], pid) = {}))
        => LET old == IF sid \in DOMAIN store THEN store[sid]
                      ELSE createSession(sid, DefaultSessionName, now)
           IN /\ sid \in DOMAIN store'
              /\ store'[sid] =
                   [old EXCEPT
                      !.lastActivity = now,
                      !.participants =
                        Append(@, [id |-> pid, name |-> name, role |-> role,
                                   vote |-> NULL, avatar |-> avatar])] ]_vars

\* C8: after reset() on a stored session revealed is false, story is empty,
\* storyLocked is false and every voter's vote is null.
C8_ResetClearsRound ==
  (last.op = "reset" /\ last.ok)
    => /\ last.sid \in DOMAIN store
       /\ store[last.sid].revealed = FALSE
       /\ store[last.sid].story = ""
       /\ store[last.sid].storyLocked = FALSE
       /\ \A i \in DOMAIN store[last.sid].participants :
            store[last.sid].participants[i].role = "estimator"
              => store[last.sid].participants[i].vote = NULL

\* C9: reveal() on a stored session returns true and stores the session it
\* found with revealed = true and a fresh lastActivity, nothing else changed
\* (participants, votes, story, storyLocked); on a session that is already
\* revealed it changes lastActivity alone, so a second call adds nothing to
\* the first.
C9_RevealSetsRevealedOnly ==
  [][ (last'.op = "reveal" /\ last'.sid \in DOMAIN store)
        => /\ last'.ok
           /\ DOMAIN store' = DOMAIN store
           /\ store'[last'.sid] =
                [store[last'.sid] EXCEPT !.revealed = TRUE, !.lastActivity = now]
           /\ store[last'.sid].revealed
                => store'[last'.sid] = [store[last'.sid] EXCEPT !.lastActivity = now] ]_vars

\* C9 witness: reveal() has just succeeded on a session that holds an
\* observer and a voter and in which nobody has voted
C9_Witness ==
  /\ last.op = "reveal" /\ last.ok
  /\ store[last.sid].revealed
  /\ \E i, j \in DOMAIN store[last.sid].participants :
       /\ store[last.sid].participants[i].role = "observer"
       /\ store[last.sid].participants[j].role = "estimator"
  /\ \A i \in DOMAIN store[last.sid].participants :
       store[last.sid].participants[i].vote = NULL

\* C10: vote() by a voter of a session whose revealed flag is true returns
\* true and stores the value as that voter's vote; revealed stays true.
C10_VoteWhileRevealedAccepted ==
  [][ (/\ last'.op = "vote"
       /\ IsVoter(store, last'.sid, last'.pid)
       /\ store[last'.sid].revealed)
        => /\ last'.ok
           /\ HasVote(store', last'.sid, last'.pid, last'.arg)
           /\ store'[last'.sid].revealed ]_vars

\* C10 witness: vote() has just returned true for a card value on a
\* revealed session and the card is that voter's stored vote
C10_Witness ==
  /\ last.op = "vote" /\ last.ok /\ last.arg \in CardValues
  /\ store[last.sid].revealed
  /\ HasVote(store, last.sid, last.pid, last.arg)

\* the keyspace after call x and then call y ran one at a time on st
OneByOne(st, x, y) == RunStore(RunStore(st, x, now), y, now)

\* C1: when two different voters of one session vote concurrently, in any
\* interleaving of the two calls' reads and writes, the stored session then
\* holds both new votes.
C1_ConcurrentVotesBothKept ==
  (/\ AllDone
   /\ procs # NoProcs
   /\ procs["a"].call.op = "vote" /\ procs["b"].call.op = "vote"
   /\ procs["a"].call.sid = procs["b"].call.sid
   /\ procs["a"].call.pid # procs["b"].call.pid
   /\ IsVoter(base, procs["a"].call.sid, procs["a"].call.pid)
   /\ IsVoter(base, procs["b"].call.sid, procs["b"].call.pid))
    => /\ HasVote(store, procs["a"].call.sid, procs["a"].call.pid, procs["a"].call.arg)
       /\ HasVote(store, procs["b"].call.sid, procs["b"].call.pid, procs["b"].call.arg)

\* C2: when two mutating calls on one session run concurrently, in any
\* interleaving of their reads and writes, the stored state at the end is
\* the one that running them one at a time, in one order or the other,
\* gives.
C2_ConcurrentCallsSerialize ==
  (AllDone /\ procs # NoProcs)
    => store \in {OneByOne(base, procs["a"].call, procs["b"].call),
                  OneByOne(base, procs["b"].call, procs["a"].call)}

\* C11: between a reveal and the next reset nobody's vote changes: a step
\* that is not a reset and starts in a session whose revealed flag is true
\* leaves the vote of every participant who stays in the session as it was.
C11_VotesFrozenWhileRevealed ==
  [][ \A sid \in DOMAIN store \cap DOMAIN store' :
        (store[sid].revealed /\ last'.op # "reset")
          => \A pid \in ParticipantIds : \A v \in VoteValues :
               (HasVote(store, sid, pid, v) /\ Entries(store'[sid], pid) # {})
                 => HasVote(store', sid, pid, v) ]_vars

\* C12: a session that comes into being (createSession, or a join to an
\* unknown id) has revealed = false, an empty story, storyLocked = false and
\* no participant but the one whose join created it; afterwards revealed
\* goes from false to true only in a reveal() and from true to false only
\* in a reset().
C12_RevealedChangesByRevealAndReset ==
  [][ \A sid \in DOMAIN store' :
        /\ (sid \notin DOMAIN store \/ (last'.op = "createSession" /\ last'.sid = sid))
             => /\ store'[sid].revealed = FALSE
                /\ store'[sid].story = ""
                /\ store'[sid].storyLocked = FALSE
                /\ store'[sid].participants # <<>>
                     => /\ last'.op = "addParticipant"
                        /\ Len(store'[sid].participants) = 1
                        /\ store'[sid].participants[1].id = last'.pid
        /\ (sid \in DOMAIN store /\ ~(last'.op = "createSession" /\ last'.sid = sid))
             => /\ (~store[sid].revealed /\ store'[sid].revealed)
                     => (last'.op = "reveal" /\ last'.sid = sid)
                /\ (store[sid].revealed /\ ~store'[sid].revealed)
                     => (last'.op = "reset" /\ last'.sid = sid) ]_vars

\* C12 witness: reset() has just taken a session with two participants and
\* a locked story back to revealed = false
C12_Witness ==
  /\ last.op = "reset" /\ last.ok
  /\ ~store[last.sid].revealed
  /\ Len(store[last.sid].participants) = 2
  /\ store[last.sid].storyLocked

\* C16: updateAvatar(sessionId, participantId, avatar) returns false and
\* leaves the keyspace as it was when the session or the participant is
\* missing; otherwise it returns true and stores the session with that
\* participant's avatar replaced and nothing else changed but lastActivity:
\* same vote, role and name, every other participant as before.
C16_UpdateAvatarOverwritesOnly ==
  [][ last'.op = "updateAvatar"
        => IF last'.sid \in DOMAIN store /\ Entries(store[last'.sid], last'.pid) # {}
           THEN LET old == store[last'.sid].participants
                    new == store'[last'.sid].participants
                IN /\ last'.ok
                   /\ DOMAIN store' = DOMAIN store
                   /\ [store'[last'.sid] EXCEPT !.participants = old] =
                        [store[last'.sid] EXCEPT !.lastActivity = now]
                   /\ Len(new) = Len(old)
                   /\ \A i \in DOMAIN old :
                        IF old[i].id = last'.pid
                        THEN /\ new[i].avatar = last'.arg
                             /\ new[i].id = old[i].id
                             /\ new[i].name = old[i].name
                             /\ new[i].role = old[i].role
                             /\ new[i].vote = old[i].vote
                             /\ lastHeartbeatOf(new[i]) = lastHeartbeatOf(old[i])
                        ELSE new[i] = old[i]
           ELSE ~last'.ok /\ store' = store ]_vars

\* C16 witness: updateAvatar has just replaced the avatar of a participant
\* who holds a vote, next to a participant with another avatar
C16_Witness ==
  /\ last.op = "updateAvatar" /\ last.ok
  /\ \E i, j \in DOMAIN store[last.sid].participants :
       /\ store[last.sid].participants[i].id = last.pid
       /\ store[last.sid].participants[i].avatar = last.arg
       /\ store[last.sid].participants[i].vote \in CardValues
       /\ store[last.sid].participants[j].avatar \in Avatars \ {last.arg}

\* C17: updateHeartbeat(sessionId, participantId) returns false and leaves
\* the keyspace as it was when the session or the participant is missing
\* (no participant appears); otherwise it returns true and sets that
\* participant's lastHeartbeat to the current time, keeping its vote, role,
\* name and avatar and every other participant.
C17_HeartbeatSetsLastHeartbeatOnly ==
  [][ last'.op = "updateHeartbeat"
        => IF last'.sid \in DOMAIN store /\ Entries(store[last'.sid], last'.pid) # {}
           THEN LET old == store[last'.sid].participants
                    new == store'[last'.sid].participants
                IN /\ last'.ok
                   /\ DOMAIN store' = DOMAIN store
                   /\ [store'[last'.sid] EXCEPT !.participants = old] =
                        [store[last'.sid] EXCEPT !.lastActivity = now]
                   /\ Len(new) = Len(old)
                   /\ \A i \in DOMAIN old :
                        IF old[i].id = last'.pid
                        THEN /\ lastHeartbeatOf(new[i]) = <<now>>
                             /\ new[i].id = old[i].id
                             /\ new[i].name = old[i].name
                             /\ new[i].role = old[i].role
                             /\ new[i].vote = old[i].vote
                             /\ new[i].avatar = old[i].avatar
                        ELSE new[i] = old[i]
           ELSE ~last'.ok /\ store' = store ]_vars

\* C17 witness: updateHeartbeat has just stamped, at a later time, a voter
\* who holds a vote while the other participant's heartbeat is older
C17_Witness ==
  /\ last.op = "updateHeartbeat" /\ last.ok /\ now > 0
  /\ \E i, j \in DOMAIN store[last.sid].participants :
       /\ store[last.sid].participants[i].id = last.pid
       /\ lastHeartbeatOf(store[last.sid].participants[i]) = <<now>>
       /\ store[last.sid].participants[i].vote \in CardValues
       /\ lastHeartbeatOf(store[last.sid].participants[j]) = <<0>>

\* C15: updateStory(sessionId, story, storyLocked) on a stored session
\* returns true and stores exactly the given story and storyLocked, an empty
\* story and a false flag included, with the participants, their votes and
\* revealed as they were; on an unknown session it returns false and the
\* keyspace stays as it was.
C15_UpdateStoryStoresVerbatim ==
  [][ last'.op = "updateStory"
        => IF last'.sid \in DOMAIN store
           THEN /\ last'.ok
                /\ DOMAIN store' = DOMAIN store
                /\ store'[last'.sid].story = last'.arg
                /\ store'[last'.sid].storyLocked = last'.flag
                /\ store'[last'.sid].participants = store[last'.sid].participants
                /\ store'[last'.sid].revealed = store[last'.sid].revealed
                /\ store'[last'.sid].name = store[last'.sid].name
           ELSE ~last'.ok /\ store' = store ]_vars

\* C15 witness: updateStory has just stored an empty, unlocked story in a
\* revealed session in which a voter holds a vote
C15_Witness ==
  /\ last.op = "updateStory" /\ last.ok /\ last.arg = "" /\ ~last.flag
  /\ store[last.sid].story = "" /\ ~store[last.sid].storyLocked
  /\ store[last.sid].revealed
  /\ \E i \in DOMAIN store[last.sid].participants :
       store[last.sid].participants[i].vote \in CardValues

\* the calls of the SessionManager class and of server.js that change a
\* session when they succeed
MgrMutations ==
  {"mgr.createSession", "mgr.addParticipant", "rejoin-session",
   "mgr.removeParticipant", "mgr.vote", "mgr.reveal", "mgr.reset",
   "socket join-session", "socket vote", "socket reveal", "socket reset"}

\* C13: every successful mutating call (create, join, vote, reveal, reset,
\* leave) leaves the session's lastActivity equal to the current time, and
\* the lastActivity of a session that stays never goes back.
C13_MutationsStampLastActivity ==
  [][ /\ (last'.ok /\ last'.op \in MgrMutations /\ last'.sid \in DOMAIN sessions')
           => sessions'[last'.sid].lastActivity = now
      /\ \A sid \in DOMAIN sessions \cap DOMAIN sessions' :
           sessions'[sid].lastActivity >= sessions[sid].lastActivity ]_vars

\* the list without the entries of pid
Without(participants, pid) == SelectSeq(participants, LAMBDA p : p.id # pid)

\* C14: removeParticipant(sessionId, participantId) on a session that holds
\* the participant returns true and removes that participant alone: the
\* others keep their records and their order, and the session keeps its
\* name and revealed; when the session or the participant is missing it
\* returns false and no session changes.
C14_LeaveRemovesExactlyOne ==
  [][ last'.op = "mgr.removeParticipant"
        => IF /\ last'.sid \in DOMAIN sessions
              /\ Entries(sessions[last'.sid], last'.pid) # {}
           THEN /\ last'.ok
                /\ DOMAIN sessions' = DOMAIN sessions
                /\ sessions'[last'.sid].participants =
                     Without(sessions[last'.sid].participants, last'.pid)
                /\ sessions'[last'.sid].revealed = sessions[last'.sid].revealed
                /\ sessions'[last'.sid].name = sessions[last'.sid].name
           ELSE ~last'.ok /\ sessions' = sessions ]_vars

\* C14 witness: removeParticipant has just taken the first participant out
\* of a revealed session and the one who stays still holds a vote
C14_Witness ==
  /\ last.op = "mgr.removeParticipant" /\ last.ok /\ last.pid = "p1"
  /\ sessions[last.sid].revealed
  /\ Len(sessions[last.sid].participants) = 1
  /\ sessions[last.sid].participants[1].id = "p2"
  /\ sessions[last.sid].participants[1].vote \in CardValues

\* C20: expiry never removes a session whose lastActivity is within the
\* retention window: a cleanup run deletes only sessions whose lastActivity
\* is older than the window, and a session on which a write has just
\* succeeded is within the window.
C20_NoExpiryWithinWindow ==
  [][ /\ last'.op = "mgr.cleanupExpiredSessions"
           => \A sid \in DOMAIN sessions \ DOMAIN sessions' :
                now - sessions[sid].lastActivity > sessionExpiryMs
      /\ (last'.ok /\ last'.op \in MgrMutations /\ last'.sid \in DOMAIN sessions')
           => now - sessions'[last'.sid].lastActivity <= sessionExpiryMs ]_vars

\* session sid is stored after the step exactly as before it, or is missing
\* before and after
SessionUntouched(sid) ==
  /\ sid \in DOMAIN store <=> sid \in DOMAIN store'
  /\ sid \in DOMAIN store => store'[sid] = store[sid]

\* C18: a step of a call addressed to session A (the GET, the SET of a
\* created session or the SET of the update of a call in flight, a
\* createSession or a deleteSession) leaves every other session B as it was,
\* participants, votes, revealed, story fields and lastActivity, also while
\* a call on B is in flight.
C18_OtherSessionsUntouched ==
  [][ /\ \A p \in ProcIds :
           (GetSession(p) \/ CreateMissing(p) \/ SetSession(p))
             => \A sid \in IsoSessionIds \ {procs[p].call.sid} : SessionUntouched(sid)
      /\ \A a \in IsoSessionIds :
           (CreateSession(a, CreatedSessionName) \/ DeleteSession(a))
             => \A sid \in IsoSessionIds \ {a} : SessionUntouched(sid) ]_vars

\* C18 witness: a vote on s1 has been written at a later time while a vote
\* on s2 has read its session and not yet written it, and s2's record still
\* has its old lastActivity and no vote
C18_Witness ==
  /\ procs["a"].call.op = "vote" /\ procs["a"].call.sid = "s1"
  /\ procs["a"].pc = "done" /\ procs["a"].ok
  /\ procs["b"].call.op = "vote" /\ procs["b"].call.sid = "s2"
  /\ procs["b"].pc = "set"
  /\ HasVote(store, "s1", "p1", "5") /\ store["s1"].lastActivity = 1
  /\ HasVote(store, "s2", "p1", NULL) /\ store["s2"].lastActivity = 0

\* the routes and socket handlers that mutate a session and broadcast
RouteOps ==
  {"POST join", "POST vote", "POST reveal", "POST reset", "POST story",
   "POST avatar", "POST leave"}

SocketOps == {"socket join-session", "socket vote", "socket reveal", "socket reset"}

\* C19: a join, vote, reveal, reset, story update, avatar update or leave
\* request that succeeded has sent one session-state message on the
\* session's channel, carrying the whole session as it is stored after the
\* mutation; a request that failed (unknown session, unknown participant,
\* observer voting, invalid body) has sent nothing.
C19_BroadcastIffSuccess ==
  /\ (last.op \in RouteOps /\ last.ok)
       => /\ last.sid \in DOMAIN store
          /\ pushed = <<[channel |-> last.sid, event |-> "session-state",
                         data |-> <<store[last.sid]>>]>>
  /\ (last.op \in SocketOps /\ last.ok)
       => /\ last.sid \in DOMAIN sessions
          /\ pushed = <<[channel |-> last.sid, event |-> "session-state",
                         data |-> <<[id |-> sessions[last.sid].id,
                                     name |-> sessions[last.sid].name,
                                     participants |-> sessions[last.sid].participants,
                                     revealed |-> sessions[last.sid].revealed]>>]>>
  /\ (last.op \in RouteOps \cup SocketOps /\ ~last.ok) => pushed = <<>>

\* C19 witness: the vote route has just stored a voter's card in a session
\* that also holds an observer, and the message it sent carries the session
\* with that vote
C19_Witness ==
  /\ last.op = "POST vote" /\ last.ok /\ last.arg \in CardValues
  /\ \E i \in DOMAIN store[last.sid].participants :
       store[last.sid].participants[i].role = "observer"
  /\ Len(pushed) = 1
  /\ pushed[1].channel = last.sid
  /\ HasVote([k \in {last.sid} |-> pushed[1].data[1]], last.sid, last.pid, last.arg)

\* ------------------------------------------------ votingUtils (client side)
\* The browser classifies the votes, evaluates presence and highlights the
\* history with pure functions of lib/votingUtils.  Their participants carry
\* the client's roles; a timestamp is the instant it denotes, in ms (the ISO
\* strings Date.toISOString writes have ms precision, and Date reads the
\* same instant back).
ParticipantRole == {"voter", "observer"}

OFFLINE_THRESHOLD == 30000

\* participants.filter(p => p.role === 'voter').map(p => p.vote)
\*             .filter(v => v !== null)
allVotesOf_AnyRole(participants) ==
  LET voters == participants
      votes == [i \in DOMAIN voters |-> voters[i].vote]
  IN  SelectSeq(votes, LAMBDA v : v # NULL)

allVotesOf(participants) ==
  LET voters == SelectSeq(participants, LAMBDA p : p.role = "voter")
      votes == [i \in DOMAIN voters |-> voters[i].vote]
  IN  SelectSeq(votes, LAMBDA v : v # NULL)

\* allVotes.reduce((acc, vote) => { acc[vote] = (acc[vote] || 0) + 1 }, {})
RECURSIVE reduceCounts(_, _, _)
reduceCounts(acc, allVotes, i) ==
  IF i > Len(allVotes) THEN acc
  ELSE LET vote == allVotes[i]
           prev == IF vote \in DOMAIN acc THEN acc[vote] ELSE 0
       IN  reduceCounts([k \in DOMAIN acc \cup {vote} |->
                           IF k = vote THEN prev + 1 ELSE acc[k]],
                        allVotes, i + 1)

mathMax(numbers) == CHOOSE m \in numbers : \A n \in numbers : n <= m

getResultType_SingleConsensus(participants) ==
  LET allVotes == allVotesOf(participants)
  IN  IF Len(allVotes) = 0 THEN "none"
      ELSE LET voteCounts == reduceCounts(<<>>, allVotes, 1)
               maxCount == mathMax({voteCounts[k] : k \in DOMAIN voteCounts})
               majorityVotes ==
                 {k \in DOMAIN voteCounts : voteCounts[k] = maxCount}
           IN  IF /\ Cardinality(majorityVotes) = 1
                  /\ maxCount = Len(allVotes)
               THEN "consensus"
               ELSE IF Cardinality(majorityVotes) > 1 THEN "joint"
               ELSE "majority"

getResultType(participants) ==
  LET allVotes == allVotesOf(participants)
  IN  IF Len(allVotes) = 0 THEN "none"
      ELSE LET voteCounts == reduceCounts(<<>>, allVotes, 1)
               maxCount == mathMax({voteCounts[k] : k \in DOMAIN voteCounts})
               majorityVotes ==
                 {k \in DOMAIN voteCounts : voteCounts[k] = maxCount}
           IN  IF /\ Len(allVotes) > 1
                  /\ Cardinality(majorityVotes) = 1
                  /\ maxCount = Len(allVotes)
               THEN "consensus"
               ELSE IF Cardinality(majorityVotes) > 1 THEN "joint"
               ELSE "majority"

isParticipantOnline_Inclusive(participant, t) ==
  IF lastHeartbeatOf(participant) = <<>> THEN FALSE
  ELSE LET lastHeartbeat == lastHeartbeatOf(participant)[1]
       IN  t - lastHeartbeat <= OFFLINE_THRESHOLD

isParticipantOnline(participant, t) ==
  IF lastHeartbeatOf(participant) = <<>> THEN FALSE
  ELSE LET lastHeartbeat == lastHeartbeatOf(participant)[1]
       IN  t - lastHeartbeat < OFFLINE_THRESHOLD

\* for (let i = history.length - 1; i >= 0; i--): the state of the loop
\* before it reads history[i]
RECURSIVE walkBackwards(_, _, _, _)
walkBackwards(history, i, seenVotes, lastOfVoteIds) ==
  IF i < 1 THEN lastOfVoteIds
  ELSE LET vote == history[i].vote
       IN  IF vote \notin seenVotes
           THEN walkBackwards(history, i - 1, seenVotes \cup {vote},
                              lastOfVoteIds \cup {history[i].id})
           ELSE walkBackwards(history, i - 1, seenVotes, lastOfVoteIds)

getLastOccurrenceIds_SkipsNewest(history) ==
  walkBackwards(history, Len(history) - 1, {}, {})

getLastOccurrenceIds(history) == walkBackwards(history, Len(history), {}, {})

\* getConsensusVote: the common vote of at least two voters, else null
getConsensusVote_SingleVote(participants) ==
  LET allVotes == allVotesOf(participants)
  IN  IF Len(allVotes) < 1 THEN NULL
      ELSE LET firstVote == allVotes[1]
           IN  IF \A i \in DOMAIN allVotes : allVotes[i] = firstVote
               THEN firstVote ELSE NULL

getConsensusVote(participants) ==
  LET allVotes == allVotesOf(participants)
  IN  IF Len(allVotes) < 2 THEN NULL
      ELSE LET firstVote == allVotes[1]
           IN  IF \A i \in DOMAIN allVotes : allVotes[i] = firstVote
               THEN firstVote ELSE NULL

\* ---- UtilSpec: the functions applied to inputs drawn from bounded sets
MaxVoters == 4
MaxHistory == 5
UtilVotes == {NULL, "5", "8", "13"}
UtilTimes == {0, 1, 29999, 30000, 30001, 60000, 90000}

SeqsUpTo(S, n) == UNION {[1..k -> S] : k \in 0..n}

UtilParticipants == [role : ParticipantRole, vote : UtilVotes]

HistoryOf(votes) == [i \in DOMAIN votes |-> [id |-> i, vote |-> votes[i]]]

UtilInit ==
  /\ store = NoSessions
  /\ now = 0
  /\ last = Returned(NoCall, TRUE)
  /\ procs = NoProcs
  /\ base = NoSessions
  /\ sessions = NoMgrSessions
  /\ storeSessions = NoStoreSessions
  /\ pushed = <<>>
  /\ socketToParticipant = NoSockets
  /\ \/ \E participants \in SeqsUpTo(UtilParticipants, MaxVoters) :
          client = [fn |-> "getResultType", participants |-> participants,
                    done |-> FALSE, out |-> Undefined]
     \/ \E participants \in SeqsUpTo(UtilParticipants, MaxVoters) :
          client = [fn |-> "getConsensusVote", participants |-> participants,
                    done |-> FALSE, out |-> Undefined]
     \/ \E t \in UtilTimes :
          \/ client = [fn |-> "isParticipantOnline",
                       participant |-> [id |-> "p1"], now |-> t,
                       done |-> FALSE, out |-> Undefined]
          \/ \E lastHeartbeat \in UtilTimes :
               client = [fn |-> "isParticipantOnline",
                         participant |-> setProperty([id |-> "p1"],
                                           "lastHeartbeat", lastHeartbeat),
                         now |-> t, done |-> FALSE, out |-> Undefined]
     \/ \E votes \in SeqsUpTo(UtilVotes \ {NULL}, MaxHistory) :
          client = [fn |-> "getLastOccurrenceIds",
                    history |-> HistoryOf(votes),
                    done |-> FALSE, out |-> Undefined]

ServerVars == <<store, now, last, procs, base, sessions, storeSessions, pushed,
                socketToParticipant>>

ApplyGetResultType ==
  /\ client.fn = "getResultType"
  /\ ~client.done
  /\ client' = [client EXCEPT !.done = TRUE,
                              !.out = getResultType(client.participants)]
  /\ UNCHANGED ServerVars

ApplyGetConsensusVote ==
  /\ client.fn = "getConsensusVote"
  /\ ~client.done
  /\ client' = [client EXCEPT !.done = TRUE,
                              !.out = getConsensusVote(client.participants)]
  /\ UNCHANGED ServerVars

ApplyIsParticipantOnline ==
  /\ client.fn = "isParticipantOnline"
  /\ ~client.done
  /\ client' = [client EXCEPT
                  !.done = TRUE,
                  !.out = isParticipantOnline(client.participant, client.now)]
  /\ UNCHANGED ServerVars

ApplyGetLastOccurrenceIds ==
  /\ client.fn = "getLastOccurrenceIds"
  /\ ~client.done
  /\ client' = [client EXCEPT !.done = TRUE,
                              !.out = getLastOccurrenceIds(client.history)]
  /\ UNCHANGED ServerVars

UtilNext ==
  \/ ApplyGetResultType
  \/ ApplyGetConsensusVote
  \/ ApplyIsParticipantOnline
  \/ ApplyGetLastOccurrenceIds

UtilSpec == UtilInit /\ [][UtilNext]_vars

\* ------------------------------------------------ votingUtils: properties
VotedIdx(participants) ==
  {i \in DOMAIN participants :
     participants[i].role = "voter" /\ participants[i].vote # NULL}

VotedValues(participants) ==
  {participants[i].vote : i \in VotedIdx(participants)}

CountOf(participants, v) ==
  Cardinality({i \in VotedIdx(participants) : participants[i].vote = v})

TopValues(participants) ==
  {v \in VotedValues(participants) :
     \A w \in VotedValues(participants) :
       CountOf(participants, w) <= CountOf(participants, v)}

\* C22: getResultType returns 'none' iff no voter has a non-null vote,
\* 'consensus' iff at least two voters voted and all their votes are equal,
\* 'joint' iff two or more distinct values tie for the highest count, and
\* 'majority' otherwise; a single vote gives 'majority' and two voters with
\* different values give 'joint'.
C22_ResultTypeClassification ==
  (client.fn = "getResultType" /\ client.done) =>
    LET ps == client.participants
        n == Cardinality(VotedIdx(ps))
        distinct == Cardinality(VotedValues(ps))
        top == Cardinality(TopValues(ps))
    IN  /\ (client.out = "none") <=> (n = 0)
        /\ (client.out = "consensus") <=> (n >= 2 /\ distinct = 1)
        /\ (client.out = "joint") <=> (top >= 2)
        /\ (client.out = "majority") <=>
             ~(n = 0 \/ (n >= 2 /\ distinct = 1) \/ top >= 2)
        /\ (n = 1) => (client.out = "majority")
        /\ (n = 2 /\ distinct = 2) => (client.out = "joint")

\* a single voter's vote, next to an observer, classified as 'majority'
C22_Witness ==
  /\ client.fn = "getResultType"
  /\ client.done
  /\ Cardinality(VotedIdx(client.participants)) = 1
  /\ Len(client.participants) = 2
  /\ client.out = "majority"

\* C23: isParticipantOnline is false when lastHeartbeat is unset, and
\* otherwise true exactly when now - lastHeartbeat < 30000 ms: true at a gap
\* of 29999 ms, false at a gap of 30000 ms and at every larger gap.
C23_OnlineBelowThreshold ==
  (client.fn = "isParticipantOnline" /\ client.done) =>
    LET hb == lastHeartbeatOf(client.participant)
    IN  IF hb = <<>> THEN client.out = FALSE
        ELSE LET gap == client.now - hb[1]
             IN  /\ client.out <=> (gap < 30000)
                 /\ (gap = 29999) => client.out
                 /\ (gap >= 30000) => ~client.out

\* a heartbeat exactly 30000 ms old evaluated as offline
C23_Witness ==
  /\ client.fn = "isParticipantOnline"
  /\ client.done
  /\ lastHeartbeatOf(client.participant) # <<>>
  /\ client.now - lastHeartbeatOf(client.participant)[1] = 30000
  /\ client.out = FALSE

\* C24: getLastOccurrenceIds returns exactly the ids of the entries that
\* have no later entry with the same vote: one id per distinct vote value,
\* the newest entry always among them, the empty set for an empty history,
\* and {4,5} for the votes 5,5,8,5,8 with ids 1..5.
C24_LastOccurrenceIds ==
  (client.fn = "getLastOccurrenceIds" /\ client.done) =>
    LET h == client.history
        lastIdx == {i \in DOMAIN h :
                      \A j \in DOMAIN h : j > i => h[j].vote # h[i].vote}
    IN  /\ client.out = {h[i].id : i \in lastIdx}
        /\ Cardinality(client.out) = Cardinality({h[i].vote : i \in DOMAIN h})
        /\ (Len(h) > 0) => (h[Len(h)].id \in client.out)
        /\ (Len(h) = 0) => (client.out = {})
        /\ (h = HistoryOf(<<"5", "5", "8", "5", "8">>)) => (client.out = {4, 5})

\* the history 5,5,8,5,8 highlighted
C24_Witness ==
  /\ client.fn = "getLastOccurrenceIds"
  /\ client.done
  /\ client.history = HistoryOf(<<"5", "5", "8", "5", "8">>)
  /\ client.out = {4, 5}

\* ------------------------------------------------ the client's history
\* String.prototype.trim on the stories a user types here
trim(s) == IF s = " " THEN "" ELSE s

\* [...prev, entry], cut to its last 8 items when it has more
appendEntry_KeepsOldest(history, entry) ==
  LET newHistory == Append(history, entry)
  IN  IF Len(newHistory) > 8 THEN SubSeq(newHistory, 1, 8) ELSE newHistory

appendEntry(history, entry) ==
  LET newHistory == Append(history, entry)
  IN  IF Len(newHistory) > 8
      THEN SubSeq(newHistory, Len(newHistory) - 7, Len(newHistory))
      ELSE newHistory

\* ---- the session page in one browser tab
\* client.myId and client.myRole are null and 'voter' until the tab has
\* joined; client.session holds the session view (empty before the first
\* one), client.story the story input, client.lastAutoSavedStory the ref of
\* that name, client.nextId the next id crypto.randomUUID hands out.
MaxSaves == 10
TypedStories == {"", " ", "Login", "Cart"}
SavedVote == "5"

NewPage ==
  [fn |-> "page", myId |-> NULL, myRole |-> "voter", session |-> <<>>,
   selectedCard |-> NULL, story |-> "", storyLocked |-> FALSE,
   lastAutoSavedStory |-> "", history |-> <<>>, nextId |-> 1]

\* the tab of participant p1 once joinSession has returned
JoinedPage(role) == [NewPage EXCEPT !.myId = "p1", !.myRole = role]

SessionStates ==
  {[revealed |-> revealed, story |-> story, storyLocked |-> story # "",
    participants |-> participants] :
     revealed \in BOOLEAN, story \in {"", "Login", "Cart"},
     participants \in
       {<<[id |-> "p1", role |-> "voter", vote |-> "5"],
          [id |-> "p2", role |-> "voter", vote |-> "5"]>>,
        <<[id |-> "p1", role |-> "voter", vote |-> "5"],
          [id |-> "p2", role |-> "voter", vote |-> "8"]>>}}

HistoryInit ==
  /\ store = NoSessions
  /\ now = 0
  /\ last = Returned(NoCall, TRUE)
  /\ procs = NoProcs
  /\ base = NoSessions
  /\ sessions = NoMgrSessions
  /\ storeSessions = NoStoreSessions
  /\ pushed = <<>>
  /\ socketToParticipant = NoSockets
  /\ client = JoinedPage("voter")

HistoryEntry(id, story, vote, t) ==
  [id |-> id, story |-> story, vote |-> vote, timestamp |-> t]

\* onChange of the story input
TypeStory(story) ==
  /\ client.myId # NULL
  /\ client' = [client EXCEPT !.story = story]
  /\ UNCHANGED ServerVars

\* the optimistic update of resetVotes: the view is not revealed, has no
\* story and no votes
resetView(session) ==
  IF session = <<>> THEN session
  ELSE <<[session[1] EXCEPT
            !.revealed = FALSE, !.story = "", !.storyLocked = FALSE,
            !.participants = [i \in DOMAIN @ |-> [@[i] EXCEPT !.vote = NULL]]]>>

\* saveToHistory(vote), offered by the results panel of a revealed view;
\* it ends with resetVotes().  The story and reset requests it sends change
\* the server, not the tab.
SaveToHistory(vote) ==
  /\ client.myId # NULL
  /\ client.session # <<>> /\ client.session[1].revealed
  /\ client.nextId <= MaxSaves
  /\ client' =
       IF trim(client.story) = "" THEN client
       ELSE [client EXCEPT
               !.history = appendEntry(@, HistoryEntry(client.nextId,
                                           trim(client.story), vote, now)),
               !.nextId = @ + 1,
               !.story = "",
               !.storyLocked = FALSE,
               !.selectedCard = NULL,
               !.session = resetView(@)]
  /\ UNCHANGED ServerVars

\* (state.story ?? storyRef.current).trim()
currentStoryOf(state, storyRef) ==
  trim(IF state.story \in {Undefined, NULL} THEN storyRef ELSE state.story)

\* the auto-save without its test of lastAutoSavedStoryRef
autoSaves_SameStoryAgain(prev, state, storyRef, lastAutoSavedStory) ==
  /\ state.revealed /\ ~(prev # <<>> /\ prev[1].revealed)
  /\ getConsensusVote(state.participants) # NULL
  /\ currentStoryOf(state, storyRef) # ""

\* the auto-save without its test of consensus
autoSaves_AnyResult(prev, state, storyRef, lastAutoSavedStory) ==
  /\ state.revealed /\ ~(prev # <<>> /\ prev[1].revealed)
  /\ currentStoryOf(state, storyRef) # ""
  /\ currentStoryOf(state, storyRef) # lastAutoSavedStory

\* state.revealed && !prev?.revealed, and then consensusVote &&
\* currentStory && currentStory !== lastAutoSavedStoryRef.current
autoSaves(prev, state, storyRef, lastAutoSavedStory) ==
  /\ state.revealed /\ ~(prev # <<>> /\ prev[1].revealed)
  /\ getConsensusVote(state.participants) # NULL
  /\ currentStoryOf(state, storyRef) # ""
  /\ currentStoryOf(state, storyRef) # lastAutoSavedStory

\* state.storyLocked || state.story === ''
syncsStory(state) == state.storyLocked \/ state.story = ""

\* the tab after the session-state handler has run on state at time t.
\* setSession's updater, which holds the auto-save, runs inside setSession
\* when the component has no update pending (eager) and during the next
\* render when it has: its setStory('') and setStoryLocked(false) are then
\* queued before or after the handler's own setStoryLocked and setStory.
sessionStateApplied(c, state, t, eager) ==
  LET save == autoSaves(c.session, state, c.story, c.lastAutoSavedStory)
      currentStory == currentStoryOf(state, c.story)
      me == findIndex(state.participants, c.myId)
      hasLocked == "storyLocked" \in DOMAIN state
      synced == hasLocked /\ syncsStory(state)
      value == IF state.story \in {Undefined, NULL} THEN "" ELSE state.story
  IN  [c EXCEPT
         !.session = <<state>>,
         !.selectedCard = IF c.myId # NULL /\ me > 0
                          THEN state.participants[me].vote ELSE @,
         !.story = IF save /\ ~eager THEN ""
                   ELSE IF synced THEN value
                   ELSE IF save THEN "" ELSE @,
         !.storyLocked = IF save /\ ~eager THEN FALSE
                         ELSE IF hasLocked THEN state.storyLocked
                         ELSE IF save THEN FALSE ELSE @,
         !.lastAutoSavedStory = IF save THEN currentStory ELSE @,
         !.history = IF save
                     THEN appendEntry(@, HistoryEntry(c.nextId, currentStory,
                                         getConsensusVote(state.participants), t))
                     ELSE @,
         !.nextId = IF save THEN @ + 1 ELSE @]

\* channel.bind('session-state'): auto-save on a reveal with consensus, the
\* selected card follows the tab's own vote, the story input follows a
\* locked or cleared story
OnSessionState(state) ==
  LET save == autoSaves(client.session, state, client.story,
                        client.lastAutoSavedStory)
  IN  /\ save => client.nextId <= MaxSaves
      /\ \E eager \in IF save THEN BOOLEAN ELSE {TRUE} :
           client' = sessionStateApplied(client, state, now, eager)
      /\ UNCHANGED ServerVars

HistoryNext ==
  \/ \E story \in TypedStories : TypeStory(story)
  \/ SaveToHistory(SavedVote)
  \/ \E state \in SessionStates : OnSessionState(state)

HistorySpec == HistoryInit /\ [][HistoryNext]_vars

\* ---- ViewSpec: the tab under every snapshot and its own clicks
\* no snapshot is received after MaxAutoSaves auto-saves
MaxAutoSaves == 3

\* the Reveal Votes button is enabled:
\* session?.participants.some(p => p.role === 'voter' && p.vote !== null)
revealEnabled_AnyRole(session) ==
  /\ session # <<>>
  /\ \E i \in DOMAIN session[1].participants :
       session[1].participants[i].vote # NULL

revealEnabled(session) ==
  /\ session # <<>>
  /\ \E i \in DOMAIN session[1].participants :
       /\ session[1].participants[i].role = "voter"
       /\ session[1].participants[i].vote # NULL

\* the cards are offered to a joined voter while the view is not revealed
cardsOffered(c) ==
  /\ c.myId # NULL
  /\ c.myRole = "voter"
  /\ ~(c.session # <<>> /\ c.session[1].revealed)

\* selectedCard === value ? null : value
toggled(c, value) == IF c.selectedCard = value THEN NULL ELSE value

\* the tab after vote(value): the card toggles and the view shows it at once
cardClicked(c, value) ==
  LET me == findIndex(c.session[1].participants, c.myId)
  IN  [c EXCEPT
         !.selectedCard = toggled(c, value),
         !.session = IF @ = <<>> \/ me = 0 THEN @
                     ELSE <<[@[1] EXCEPT
                               !.participants[me].vote = toggled(c, value)]>>]

\* the tab after resetVotes()
resetClicked(c) ==
  [c EXCEPT !.selectedCard = NULL, !.story = "", !.storyLocked = FALSE,
            !.session = resetView(@)]

\* vote(value) in a tab of its own: the request changes the server only
ClickCard(value) ==
  /\ cardsOffered(client)
  /\ client' = cardClicked(client, value)
  /\ UNCHANGED ServerVars

\* resetVotes(), the New Round button of a revealed view
ResetVotes ==
  /\ client.myId # NULL
  /\ client.session # <<>> /\ client.session[1].revealed
  /\ client' = resetClicked(client)
  /\ UNCHANGED ServerVars

\* onBlur (or Enter) in the story input with a name typed: the story locks
BlurStory ==
  /\ client.myId # NULL
  /\ ~(client.storyLocked /\ trim(client.story) # "")
  /\ trim(client.story) # ""
  /\ client' = [client EXCEPT !.storyLocked = TRUE]
  /\ UNCHANGED ServerVars

\* a click on the locked story opens it for editing
EditStory ==
  /\ client.myId # NULL
  /\ client.storyLocked /\ trim(client.story) # ""
  /\ client' = [client EXCEPT !.storyLocked = FALSE]
  /\ UNCHANGED ServerVars

\* the snapshots a tab may be handed: p1, the tab's participant, and p2
ViewParticipants ==
  {<<[id |-> "p1", role |-> "voter", vote |-> "5"],
     [id |-> "p2", role |-> "voter", vote |-> "5"]>>,
   <<[id |-> "p1", role |-> "voter", vote |-> "5"],
     [id |-> "p2", role |-> "voter", vote |-> "8"]>>,
   <<[id |-> "p1", role |-> "voter", vote |-> "8"],
     [id |-> "p2", role |-> "voter", vote |-> "8"]>>,
   <<[id |-> "p1", role |-> "voter", vote |-> NULL],
     [id |-> "p2", role |-> "voter", vote |-> NULL]>>,
   <<[id |-> "p1", role |-> "voter", vote |-> "5"],
     [id |-> "p2", role |-> "observer", vote |-> "5"]>>}

ViewStates ==
  [revealed : BOOLEAN, story : {"", "Login", "Cart"}, storyLocked : BOOLEAN,
   participants : ViewParticipants]

ViewInit ==
  /\ store = NoSessions
  /\ now = 0
  /\ last = Returned(NoCall, TRUE)
  /\ procs = NoProcs
  /\ base = NoSessions
  /\ sessions = NoMgrSessions
  /\ storeSessions = NoStoreSessions
  /\ pushed = <<>>
  /\ socketToParticipant = NoSockets
  /\ client \in {NewPage, JoinedPage("voter")}

ViewNext ==
  \/ \E story \in TypedStories : TypeStory(story)
  \/ BlurStory
  \/ EditStory
  \/ \E value \in {"5", "8"} : ClickCard(value)
  \/ ResetVotes
  \/ \E state \in ViewStates :
       /\ client.nextId <= MaxAutoSaves
       /\ OnSessionState(state)

ViewSpec == ViewInit /\ [][ViewNext]_vars

\* ---- DeliverySpec: the routes, the channel and one tab
\* The tab of participant p1 and the requests of a second participant p2
\* reach the routes one at a time; Pusher takes each broadcast into
\* client.channel before the next request is served and hands the snapshots
\* of the channel to the tab in any order and any number of times;
\* client.delivered holds those handed over so far.
MaxBroadcasts == 5

SubscribedPage == [k \in DOMAIN NewPage \cup {"channel", "delivered"} |->
                     IF k \in DOMAIN NewPage THEN NewPage[k] ELSE {}]

DeliveryInit ==
  /\ store = NoSessions
  /\ now = 0
  /\ last = Returned(NoCall, TRUE)
  /\ procs = NoProcs
  /\ base = NoSessions
  /\ sessions = NoMgrSessions
  /\ storeSessions = NoStoreSessions
  /\ pushed = <<>>
  /\ socketToParticipant = NoSockets
  /\ client = SubscribedPage

\* the channel holds what the last request broadcast, and has room
Served ==
  /\ \A k \in DOMAIN pushed :
       pushed[k].data # <<>> /\ pushed[k].data[1] \in client.channel
  /\ Cardinality(client.channel) < MaxBroadcasts

DeliveryFrame == <<now, procs, base, sessions, storeSessions, socketToParticipant>>

\* joinSession in the tab: the join route, then myId, myRole and joined
TabJoin(sid, name, role) ==
  LET call == Call("addParticipant", sid, "p1", name, role, Undefined, "", FALSE)
  IN  /\ client.myId = NULL
      /\ store' = RunStore(store, call, now)
      /\ last' = Returned([call EXCEPT !.op = "POST join"], TRUE)
      /\ pushed' = Trigger(store', sid, TRUE)
      /\ client' = [client EXCEPT !.myId = "p1", !.myRole = role]
      /\ UNCHANGED DeliveryFrame

\* vote(value) in the tab: the optimistic update and the vote route
TabVote(sid, value) ==
  LET voteValue == toggled(client, value)
      call == Call("vote", sid, client.myId, "", "", "", voteValue, FALSE)
      accepted == voteValue # NULL
  IN  /\ cardsOffered(client)
      /\ store' = IF accepted THEN RunStore(store, call, now) ELSE store
      /\ last' = Returned([call EXCEPT !.op = "POST vote"],
                          accepted /\ RunResult(store, call))
      /\ pushed' = Trigger(store', sid, accepted /\ RunResult(store, call))
      /\ client' = cardClicked(client, value)
      /\ UNCHANGED DeliveryFrame

\* revealVotes in the tab: the button, then the reveal route and nothing
\* else
TabReveal(sid) ==
  /\ client.myId # NULL
  /\ ~(client.session # <<>> /\ client.session[1].revealed)
  /\ revealEnabled(client.session)
  /\ RevealRoute(sid)

\* resetVotes in the tab: the optimistic update and the reset route
TabReset(sid) ==
  LET call == Call("reset", sid, "", "", "", "", "", FALSE) IN
  /\ client.myId # NULL
  /\ client.session # <<>> /\ client.session[1].revealed
  /\ store' = RunStore(store, call, now)
  /\ last' = Returned([call EXCEPT !.op = "POST reset"], RunResult(store, call))
  /\ pushed' = Trigger(store', sid, RunResult(store, call))
  /\ client' = resetClicked(client)
  /\ UNCHANGED DeliveryFrame

\* pusher.trigger has reached Pusher: the snapshot is in the channel
Accept ==
  /\ pushed # <<>>
  /\ \A k \in DOMAIN pushed : pushed[k].data # <<>>
  /\ \E k \in DOMAIN pushed : pushed[k].data[1] \notin client.channel
  /\ client' = [client EXCEPT
                  !.channel = @ \cup {pushed[k].data[1] : k \in DOMAIN pushed}]
  /\ UNCHANGED ServerVars

\* Pusher hands a snapshot of the channel to the tab's handler
Deliver(state) ==
  LET save == autoSaves(client.session, state, client.story,
                        client.lastAutoSavedStory)
  IN  /\ state \in client.channel
      /\ \E eager \in IF save THEN BOOLEAN ELSE {TRUE} :
           client' = [sessionStateApplied(client, state, now, eager)
                        EXCEPT !.delivered = @ \cup {state}]
      /\ UNCHANGED ServerVars

DeliveryNext ==
  \/ \E sid \in SessionIds, role \in ParticipantRole :
       Served /\ TabJoin(sid, "Alice", role)
  \/ \E sid \in SessionIds, v \in CardValues : Served /\ TabVote(sid, v)
  \/ \E sid \in SessionIds : Served /\ TabReveal(sid)
  \/ \E sid \in SessionIds : Served /\ TabReset(sid)
  \/ \E sid \in SessionIds, role \in Roles :
       Served /\ JoinRoute(sid, "p2", "Bob", role)
  \/ \E sid \in SessionIds, v \in CardValues :
       Served /\ VoteRoute(sid, "p2", v)
  \/ Accept
  \/ \E state \in client.channel : Deliver(state)

DeliverySpec == DeliveryInit /\ [][DeliveryNext]_vars

\* C25: the client's history never holds more than 8 entries and changes
\* only by a save; every save puts its new entry at the end and keeps the
\* entries before it in their order, dropping the oldest one when there
\* were 8.
C25_HistoryAppendOnlyBounded ==
  /\ [](client.fn = "page" => Len(client.history) <= 8)
  /\ [][(client.fn = "page" /\ client'.history # client.history) =>
          LET old == client.history
              new == client'.history
          IN  /\ Len(new) >= 1
              /\ new[Len(new)].id \notin {old[i].id : i \in DOMAIN old}
              /\ IF Len(old) < 8
                 THEN /\ Len(new) = Len(old) + 1
                      /\ \A i \in DOMAIN old : new[i] = old[i]
                 ELSE /\ Len(new) = 8
                      /\ \A i \in 1..7 : new[i] = old[i + 1]]_vars
  /\ [][(client.fn = "page" /\ client'.nextId # client.nextId) =>
          /\ client'.history # client.history
          /\ client'.history[Len(client'.history)].id = client.nextId]_vars

\* ten saves made: the two oldest entries are gone, the last eight remain
C25_Witness ==
  /\ client.fn = "page"
  /\ Len(client.history) = 8
  /\ client.history[1].id = 3
  /\ client.history[8].id = 10

\* ------------------------------------------------ reset: what it leaves alone
\* the participant list new has the participants of old, each with every
\* property but its vote as before, and the observers with their vote too
ResetKeeps(old, new) ==
  /\ Len(new) = Len(old)
  /\ \A i \in DOMAIN old :
       /\ DOMAIN new[i] = DOMAIN old[i]
       /\ \A k \in DOMAIN old[i] \ {"vote"} : new[i][k] = old[i][k]
       /\ old[i].role = "observer" => new[i] = old[i]

\* C26: a reset changes nothing in an observer's record and leaves every
\* participant's id, name, role, avatar and lastHeartbeat as they were; it
\* adds and removes nobody.  Stated for the three resets of the source:
\* reset(), SessionManager.reset() and SessionStore.resetVotes().
C26_ResetKeepsObserversAndIdentity ==
  [][/\ (last'.op \in {"reset", "POST reset"} /\ last'.ok) =>
          ResetKeeps(store[last'.sid].participants,
                     store'[last'.sid].participants)
     /\ (last'.op \in {"mgr.reset", "socket reset"} /\ last'.ok) =>
          ResetKeeps(sessions[last'.sid].participants,
                     sessions'[last'.sid].participants)
     /\ (last'.op = "store.resetVotes" /\ last'.ok) =>
          ResetKeeps(storeSessions[last'.sid].participants,
                     storeSessions'[last'.sid].participants)]_vars

\* ------------------------------------------------ participant ids
UniqueIds(participants) ==
  \A i, j \in DOMAIN participants :
    participants[i].id = participants[j].id => i = j

\* C27: in every reachable state, whatever joins, rejoins and leaves were
\* made and however two of them interleave (two joins under the same
\* participantId included), no two entries of a session's participant list
\* have the same id.
C27_ParticipantIdsUnique ==
  /\ \A sid \in DOMAIN store : UniqueIds(store[sid].participants)
  /\ \A sid \in DOMAIN sessions : UniqueIds(sessions[sid].participants)
  /\ \A sid \in DOMAIN storeSessions : UniqueIds(storeSessions[sid].participants)

\* two joins of p1 issued together on a session without p1: one has written,
\* the other still holds the object it is about to write
C27_Witness ==
  /\ procs # NoProcs
  /\ procs["a"].call = procs["b"].call
  /\ procs["a"].call.op = "addParticipant"
  /\ procs["a"].pc = "done" /\ procs["a"].ok
  /\ procs["b"].pc = "set"
  /\ procs["a"].call.sid \in DOMAIN store
  /\ procs["a"].call.sid \in DOMAIN base =>
       Entries(base[procs["a"].call.sid], procs["a"].call.pid) = {}
  /\ Cardinality(Entries(store[procs["a"].call.sid], procs["a"].call.pid)) = 1

\* ------------------------------------------------ expiry
\* C21: a session whose lastActivity is older than the retention window is
\* eventually reclaimed by a cleanup run, after which a look-up finds
\* nothing, unless a mutating operation renews it first.
C21_IdleSessionReclaimed ==
  \A sid \in SessionIds :
    (sid \in DOMAIN sessions /\ now - sessions[sid].lastActivity > sessionExpiryMs)
      ~> (\/ sid \notin DOMAIN sessions
          \/ now - sessions[sid].lastActivity <= sessionExpiryMs)

\* time has passed and a cleanup run has just removed the only session
C21_Witness ==
  /\ last.op = "mgr.cleanupExpiredSessions"
  /\ last.ok
  /\ now >= 1
  /\ DOMAIN sessions = {}

\* ------------------------------------------------ presence
\* C30: the participant a join newly adds has lastHeartbeat set on the entry
\* addParticipant stores and returns, before any heartbeat request for it.
C30_JoinSetsLastHeartbeat ==
  [][(/\ last'.op = "addParticipant"
      /\ last'.ok
      /\ \/ last'.sid \notin DOMAIN store
         \/ Entries(store[last'.sid], last'.pid) = {})
       => \A i \in Entries(store'[last'.sid], last'.pid) :
            lastHeartbeatOf(store'[last'.sid].participants[i]) # <<>>]_vars

\* ------------- PresenceSpec: who is shown online, and who is in the list
\* Either server of the repository runs: server.js with its sockets (the
\* steps of MgrSpec), or the routes over the keyspace with the session page's
\* heartbeats.  On the page side client.open holds the participants whose tab
\* is open and joined, and client.sentAt the instant of each tab's last
\* heartbeat request (empty before the first).  Every successful mutation is
\* broadcast as a whole snapshot, so what the other tabs evaluate is the
\* stored participant at the current instant.
HEARTBEAT_INTERVAL == 10000
MaxIntervals == 4

PresenceInit ==
  \/ Init
  \/ /\ store = NoSessions
     /\ now = 0
     /\ last = Returned(NoCall, TRUE)
     /\ procs = NoProcs
     /\ base = NoSessions
     /\ sessions = NoMgrSessions
     /\ storeSessions = NoStoreSessions
     /\ pushed = <<>>
     /\ socketToParticipant = NoSockets
     /\ client = [fn |-> "tabs", open |-> {},
                  sentAt |-> [pid \in ParticipantIds |-> <<>>]]

PageFrame == <<procs, base, sessions, storeSessions, socketToParticipant>>

\* joinSession, or the rejoin of a reopened tab under its stored id: the
\* join route, then joined = true starts the heartbeat effect
PageJoin(sid, pid, name, role) ==
  LET call == Call("addParticipant", sid, pid, name, role, Undefined, "", FALSE)
  IN  /\ pid \notin client.open
      /\ store' = RunStore(store, call, now)
      /\ last' = Returned([call EXCEPT !.op = "POST join"], TRUE)
      /\ pushed' = Trigger(store', sid, TRUE)
      /\ client' = [client EXCEPT !.open = @ \cup {pid}, !.sentAt[pid] = <<>>]
      /\ UNCHANGED <<now, PageFrame>>

\* sendHeartbeat, at once after the join and then on every interval: the
\* heartbeat route records it and broadcasts on success
PageHeartbeat(sid, pid) ==
  LET call == Call("updateHeartbeat", sid, pid, "", "", "", "", FALSE)
  IN  /\ pid \in client.open
      /\ client.sentAt[pid] # <<now>>
      /\ store' = RunStore(store, call, now)
      /\ last' = Returned([call EXCEPT !.op = "POST heartbeat"],
                          RunResult(store, call))
      /\ pushed' = Trigger(store', sid, RunResult(store, call))
      /\ client' = [client EXCEPT !.sentAt[pid] = <<now>>]
      /\ UNCHANGED <<now, PageFrame>>

\* a card clicked in an open tab
PageVote(sid, pid, voteValue) ==
  /\ pid \in client.open
  /\ VoteRoute(sid, pid, voteValue)

\* leaveSession: myIdRef is cleared, which ends the heartbeats, and the
\* leave route removes the participant
PageLeave(sid, pid) ==
  LET call == Call("removeParticipant", sid, pid, "", "", "", "", FALSE)
  IN  /\ pid \in client.open
      /\ store' = RunStore(store, call, now)
      /\ last' = Returned([call EXCEPT !.op = "POST leave"],
                          RunResult(store, call))
      /\ pushed' = Trigger(store', sid, RunResult(store, call))
      /\ client' = [client EXCEPT !.open = @ \ {pid}]
      /\ UNCHANGED <<now, PageFrame>>

\* the browser closes or loses its connection: the interval is gone and no
\* request is sent
CloseTab(pid) ==
  /\ pid \in client.open
  /\ client' = [client EXCEPT !.open = @ \ {pid}]
  /\ UNCHANGED ServerVars

\* HEARTBEAT_INTERVAL ms pass; every open tab has sent the heartbeat that
\* was due
Pass ==
  /\ now < MaxIntervals * HEARTBEAT_INTERVAL
  /\ \A pid \in client.open : client.sentAt[pid] = <<now>>
  /\ now' = now + HEARTBEAT_INTERVAL
  /\ last' = Returned(Call("tick", "", "", "", "", "", "", FALSE), TRUE)
  /\ pushed' = <<>>
  /\ UNCHANGED <<store, client, PageFrame>>

PageNext ==
  \/ \E sid \in SessionIds, pid \in ParticipantIds, role \in Roles :
       PageJoin(sid, pid, "Alice", role)
  \/ \E sid \in SessionIds, pid \in ParticipantIds : PageHeartbeat(sid, pid)
  \/ \E sid \in SessionIds, pid \in ParticipantIds, v \in CardValues :
       PageVote(sid, pid, v)
  \/ \E sid \in SessionIds, pid \in ParticipantIds : PageLeave(sid, pid)
  \/ \E pid \in ParticipantIds : CloseTab(pid)
  \/ \E sid \in SessionIds : ResetRoute(sid)
  \/ \E sid \in SessionIds : DeleteSession(sid)
  \/ Pass

PresenceNext ==
  \/ client.fn = "none" /\ MgrNext
  \/ client.fn = "tabs" /\ PageNext

PresenceSpec == PresenceInit /\ [][PresenceNext]_vars

\* ---------------------------------------- PresenceSpec: properties
Present(st, sid, pid) == sid \in DOMAIN st /\ Entries(st[sid], pid) # {}

EntryOf(st, sid, pid) ==
  st[sid].participants[CHOOSE i \in Entries(st[sid], pid) : TRUE]

\* C28: a participant stays in the participant list with its vote while its
\* heartbeats stop, while its lastHeartbeat grows older than the offline
\* threshold and when its connection drops: an entry goes only by a leave of
\* that participant or by the deletion or expiry of the session (a
\* createSession under its id, which puts a new session in its place,
\* included), a vote changes only by a vote, a reset or a join, and a step in
\* which time passes, a tab closes or a socket disconnects changes no session.
C28_OnlyLeaveRemoves ==
  [][/\ \A sid \in SessionIds, pid \in ParticipantIds :
          /\ (Present(store, sid, pid) /\ ~Present(store', sid, pid)) =>
               \/ last'.op = "POST leave" /\ last'.pid = pid /\ last'.ok
               \/ last'.op = "deleteSession" /\ last'.sid = sid
          /\ (Present(sessions, sid, pid) /\ ~Present(sessions', sid, pid)) =>
               \/ last'.op = "mgr.removeParticipant" /\ last'.pid = pid
               \/ last'.op \in {"mgr.deleteSession", "mgr.createSession"}
                    /\ last'.sid = sid
               \/ /\ last'.op = "mgr.cleanupExpiredSessions"
                  /\ now - sessions[sid].lastActivity > sessionExpiryMs
          /\ (/\ Present(store, sid, pid) /\ Present(store', sid, pid)
              /\ EntryOf(store', sid, pid).vote # EntryOf(store, sid, pid).vote)
               => last'.op \in {"POST vote", "POST reset"}
          /\ (/\ Present(sessions, sid, pid) /\ Present(sessions', sid, pid)
              /\ EntryOf(sessions', sid, pid).vote # EntryOf(sessions, sid, pid).vote)
               => last'.op \in {"socket vote", "mgr.vote", "socket reset",
                                "mgr.reset", "socket join-session",
                                "mgr.addParticipant"}
     /\ (\/ last'.op \in {"tick", "socket disconnect"}
         \/ /\ client.fn = "tabs"
            /\ client'.open # client.open /\ client'.open \subseteq client.open
            /\ last' = last)
          => (store' = store /\ sessions' = sessions)]_vars

\* p1 voted 5 and closed its tab; 30 s after its last heartbeat it is still
\* in the list with the vote
C28_Witness ==
  /\ client.fn = "tabs"
  /\ "p1" \notin client.open
  /\ Present(store, "s1", "p1")
  /\ EntryOf(store, "s1", "p1").vote = "5"
  /\ lastHeartbeatOf(EntryOf(store, "s1", "p1")) # <<>>
  /\ now - lastHeartbeatOf(EntryOf(store, "s1", "p1"))[1] >= 30000

\* C29: a joined participant whose tab keeps sending a heartbeat every 10 s
\* is evaluated online by the other clients, and a participant whose tab has
\* stopped sending is evaluated offline once 30 s have passed since its last
\* recorded heartbeat.
C29_HeartbeatsKeepOnline ==
  client.fn = "tabs" =>
    \A sid \in SessionIds, pid \in ParticipantIds :
      Present(store, sid, pid) =>
        LET p == EntryOf(store, sid, pid)
            hb == lastHeartbeatOf(p)
        IN  /\ (pid \in client.open /\ client.sentAt[pid] # <<>>)
                 => isParticipantOnline(p, now)
            /\ (pid \notin client.open /\ hb # <<>> /\ now - hb[1] >= 30000)
                 => ~isParticipantOnline(p, now)

\* p1's tab is open and its next heartbeat is just due, p2's tab closed 30 s
\* ago: p1 is shown online and p2 offline
C29_Witness ==
  /\ client.fn = "tabs"
  /\ client.open = {"p1"}
  /\ Present(store, "s1", "p1") /\ Present(store, "s1", "p2")
  /\ lastHeartbeatOf(EntryOf(store, "s1", "p1")) = <<now - 10000>>
  /\ lastHeartbeatOf(EntryOf(store, "s1", "p2")) = <<now - 30000>>
  /\ isParticipantOnline(EntryOf(store, "s1", "p1"), now)
  /\ ~isParticipantOnline(EntryOf(store, "s1", "p2"), now)

\* ------------------------------------------------ consensus and result type
\* C31: getConsensusVote returns a non-null value exactly when getResultType
\* returns 'consensus' for the same list, and that value is the vote every
\* voting voter cast; it returns null when fewer than two voters have a
\* non-null vote and when their votes differ.
C31_ConsensusVoteMatchesResultType ==
  (client.fn = "getConsensusVote" /\ client.done) =>
    LET ps == client.participants
        n == Cardinality(VotedIdx(ps))
    IN  /\ (client.out # NULL) <=> (getResultType(ps) = "consensus")
        /\ (client.out # NULL) => (VotedValues(ps) = {client.out})
        /\ (n < 2) => (client.out = NULL)
        /\ (Cardinality(VotedValues(ps)) > 1) => (client.out = NULL)

\* three voters on 8 next to an observer whose vote field holds 5
C31_Witness ==
  /\ client.fn = "getConsensusVote"
  /\ client.done
  /\ client.out = "8"
  /\ Cardinality(VotedIdx(client.participants)) = 3
  /\ \E i \in DOMAIN client.participants :
       /\ client.participants[i].role = "observer"
       /\ client.participants[i].vote = "5"

\* ------------------------------------------------ who counts in a result
\* a participant the classification leaves out: an observer, whatever its
\* vote field holds, or a voter that has not voted
Ignored(p) == p.role = "observer" \/ p.vote = NULL

IgnoredParticipants == {p \in UtilParticipants : Ignored(p)}

RemoveAt(ps, i) == SubSeq(ps, 1, i - 1) \o SubSeq(ps, i + 1, Len(ps))

InsertAt(ps, i, q) == SubSeq(ps, 1, i - 1) \o <<q>> \o SubSeq(ps, i, Len(ps))

ResultOf(fn, ps) ==
  IF fn = "getResultType" THEN getResultType(ps) ELSE getConsensusVote(ps)

\* C32: removing an observer or a voter without a vote from the list,
\* changing it into any other such participant, or adding one at any place,
\* leaves the result of getResultType and of getConsensusVote as it was.
C32_IgnoredParticipantsDoNotCount ==
  (client.fn \in {"getResultType", "getConsensusVote"} /\ client.done) =>
    LET ps == client.participants
    IN  /\ \A i \in DOMAIN ps :
             Ignored(ps[i]) =>
               /\ ResultOf(client.fn, RemoveAt(ps, i)) = client.out
               /\ \A q \in IgnoredParticipants :
                    ResultOf(client.fn, [ps EXCEPT ![i] = q]) = client.out
        /\ \A i \in 1..(Len(ps) + 1) : \A q \in IgnoredParticipants :
             ResultOf(client.fn, InsertAt(ps, i, q)) = client.out

\* two voters agree on 5 while an observer's vote field holds 8 and a third
\* voter has not voted: still a consensus
C32_Witness ==
  /\ client.fn = "getResultType"
  /\ client.done
  /\ client.out = "consensus"
  /\ Len(client.participants) = 4
  /\ \E i \in DOMAIN client.participants :
       client.participants[i] = [role |-> "observer", vote |-> "8"]
  /\ \E i \in DOMAIN client.participants :
       client.participants[i] = [role |-> "voter", vote |-> NULL]

\* ------------------------------------------------ the tab under snapshots
\* a step in which the session-state handler has applied the snapshot that
\* is now the tab's view
AppliesSnapshot ==
  /\ client.fn = "page"
  /\ client'.session # <<>>
  /\ \E eager \in BOOLEAN :
       client' = sessionStateApplied(client, client'.session[1], now, eager)

\* C34: a snapshot with storyLocked false and a non-empty story leaves the
\* text of the story input as it was; the input takes the snapshot's story
\* only when the snapshot is locked or its story is empty; the participants
\* with their votes and the revealed flag of the view are the snapshot's.
C34_UnlockedSnapshotKeepsTypedStory ==
  [][AppliesSnapshot =>
       LET state == client'.session[1]
       IN  /\ (~state.storyLocked /\ state.story # "") =>
                client'.story = client.story
           /\ client'.story # client.story =>
                (state.storyLocked \/ state.story = "")
           /\ client'.session[1].participants = state.participants
           /\ client'.session[1].revealed = state.revealed]_vars

\* C35: when the handler has applied a snapshot, applying the same snapshot
\* once more changes nothing: the view, the selected card, the story input,
\* storyLocked and the history stay as the first application left them.
C35_ApplyTwiceIsApplyOnce ==
  [][AppliesSnapshot =>
       \A eager \in BOOLEAN :
         LET twice == sessionStateApplied(client', client'.session[1],
                                          now', eager)
         IN  /\ twice.session = client'.session
             /\ twice.selectedCard = client'.selectedCard
             /\ twice.story = client'.story
             /\ twice.storyLocked = client'.storyLocked
             /\ twice.history = client'.history]_vars

\* ------------------------------------------------ the auto-save
\* C37 as stated: a snapshot that takes the view from not revealed to
\* revealed, with the voters in consensus and a non-empty story, appends
\* exactly one entry, that story with the consensus value; a snapshot
\* without consensus, with an empty story, or received while the view is
\* revealed appends none.
C37_AutoSaveOnConsensusReveal ==
  [][AppliesSnapshot =>
       LET state == client'.session[1]
           wasRevealed == client.session # <<>> /\ client.session[1].revealed
           consensusVote == getConsensusVote(state.participants)
           saves == /\ state.revealed /\ ~wasRevealed
                    /\ consensusVote # NULL
                    /\ state.story # ""
       IN  IF saves
           THEN /\ client'.nextId = client.nextId + 1
                /\ Len(client'.history) >= 1
                /\ LET entry == client'.history[Len(client'.history)]
                   IN  /\ entry.id = client.nextId
                       /\ entry.story = state.story
                       /\ entry.vote = consensusVote
           ELSE client'.history = client.history]_vars

\* C37, amended: the entry is appended exactly when, in addition, the
\* trimmed story differs from the story this tab auto-saved last.
C37_AutoSaveOnConsensusRevealOfNewStory ==
  [][AppliesSnapshot =>
       LET state == client'.session[1]
           wasRevealed == client.session # <<>> /\ client.session[1].revealed
           consensusVote == getConsensusVote(state.participants)
           saves == /\ state.revealed /\ ~wasRevealed
                    /\ consensusVote # NULL
                    /\ trim(state.story) # ""
                    /\ trim(state.story) # client.lastAutoSavedStory
       IN  IF saves
           THEN /\ client'.nextId = client.nextId + 1
                /\ Len(client'.history) >= 1
                /\ LET entry == client'.history[Len(client'.history)]
                   IN  /\ entry.id = client.nextId
                       /\ entry.story = trim(state.story)
                       /\ entry.vote = consensusVote
                /\ IF Len(client.history) < 8
                   THEN SubSeq(client'.history, 1, Len(client.history))
                          = client.history
                   ELSE SubSeq(client'.history, 1, 7)
                          = SubSeq(client.history, 2, 8)
                /\ Len(client'.history) =
                     IF Len(client.history) < 8 THEN Len(client.history) + 1
                     ELSE 8
           ELSE /\ client'.history = client.history
                /\ client'.nextId = client.nextId]_vars

\* a second story auto-saved after a reset: 'Login' and then 'Cart'
C37_Witness ==
  /\ client.fn = "page"
  /\ Len(client.history) = 2
  /\ client.history[1].story = "Login"
  /\ client.history[2].story = "Cart"
  /\ client.lastAutoSavedStory = "Cart"
  /\ client.session # <<>> /\ client.session[1].revealed
  /\ getConsensusVote(client.session[1].participants) = "5"

\* C38: a snapshot that reveals a consensus for a story whose trimmed name
\* is the name this tab auto-saved last appends no history entry, whatever
\* happened since that save: a reset, a new round of votes, other stories
\* typed.
C38_NoAutoSaveOfLastSavedStory ==
  [][AppliesSnapshot =>
       LET state == client'.session[1]
       IN  (/\ state.revealed
            /\ getConsensusVote(state.participants) # NULL
            /\ client.lastAutoSavedStory # ""
            /\ trim(state.story) = client.lastAutoSavedStory) =>
             /\ client'.history = client.history
             /\ client'.nextId = client.nextId]_vars

\* 'Login' was auto-saved with the consensus on 5; the view now shows a
\* later round of 'Login' revealed with a consensus on 8, and the history
\* still has its one entry
C38_Witness ==
  /\ client.fn = "page"
  /\ Len(client.history) = 1
  /\ client.history[1].story = "Login"
  /\ client.lastAutoSavedStory = "Login"
  /\ client.nextId = 2
  /\ client.session # <<>>
  /\ client.session[1].revealed
  /\ client.session[1].story = "Login"
  /\ client.history[1].vote = "5"
  /\ getConsensusVote(client.session[1].participants) = "8"

\* ------------------------------------------------ the reveal button
\* a step of a route that leaves the tab as it is
RouteStep ==
  /\ client' = client
  /\ <<store, last, pushed>>' # <<store, last, pushed>>

\* C33: the tab sends the reveal request only while its view has a
\* participant with role voter and a non-null vote; votes held by
\* participants of another role do not count.
C33_RevealNeedsAVotersVote ==
  [][(RouteStep /\ last'.op = "POST reveal") =>
       /\ client.session # <<>>
       /\ \E i \in DOMAIN client.session[1].participants :
            LET p == client.session[1].participants[i]
            IN  p.role = "voter" /\ p.vote # NULL]_vars

\* the reveal request was served while the view had only the tab's own
\* vote; the server revealed the round
C33_Witness ==
  /\ client.fn = "page"
  /\ last.op = "POST reveal" /\ last.ok
  /\ store[last.sid].revealed
  /\ client.session # <<>>
  /\ ~client.session[1].revealed
  /\ client.selectedCard # NULL
  /\ \E i \in DOMAIN client.session[1].participants :
       LET p == client.session[1].participants[i]
       IN  p.id = client.myId /\ p.role = "voter" /\ p.vote # NULL
  /\ \E i \in DOMAIN client.session[1].participants :
       LET p == client.session[1].participants[i]
       IN  p.role = "observer" /\ p.vote # NULL

\* ------------------------------------------------ repeated and reordered
\* the votes of a participant list, by participant
VotesOf(participants) ==
  [i \in DOMAIN participants |->
     [id |-> participants[i].id, vote |-> participants[i].vote]]

\* C36: once every snapshot broadcast for the session has been handed to
\* the tab, in whatever order and however often, and the tab shows a
\* snapshot as it was delivered, the votes and the revealed flag of its view
\* are those of the session on the server.
C36_ViewIsServerStateOnceAllDelivered ==
  (/\ client.fn = "page"
   /\ client.channel # {}
   /\ client.delivered = client.channel
   /\ \A k \in DOMAIN pushed : pushed[k].data[1] \in client.channel
   /\ client.session # <<>>
   /\ client.session[1] \in client.channel) =>
    \A sid \in DOMAIN store :
      /\ VotesOf(client.session[1].participants) =
           VotesOf(store[sid].participants)
      /\ client.session[1].revealed = store[sid].revealed

\* ------------------------------------------------ createSession on a used id
\* ---- CreateSpec: sessions come into being with their first join and are
\* created again, under the id they have, once they hold participants
CreateNext ==
  \/ \E sid \in SessionIds, pid \in ParticipantIds, role \in Roles :
       AddParticipant(sid, pid, "Alice", role, Undefined)
  \/ \E sid \in SessionIds, pid \in ParticipantIds, v \in CardValues :
       Vote(sid, pid, v)
  \/ \E sid \in SessionIds : Reveal(sid)
  \/ \E sid \in SessionIds : UpdateStory(sid, "Login", TRUE)
  \/ \E sid \in SessionIds :
       /\ sid \in DOMAIN store
       /\ store[sid].participants # <<>>
       /\ CreateSession(sid, CreatedSessionName)
  \/ \E sid \in SessionIds, role \in Roles :
       MgrAddParticipant(sid, "p1", "Alice", role)
  \/ \E sid \in SessionIds, v \in CardValues : MgrVote(sid, "p1", v)
  \/ \E sid \in SessionIds : MgrReveal(sid)
  \/ \E sid \in SessionIds :
       /\ sid \in DOMAIN sessions
       /\ sessions[sid].participants # <<>>
       /\ MgrCreateSession(sid, CreatedSessionName)

CreateSpec == Init /\ [][CreateNext]_vars

\* C39: createSession on an id in use succeeds and leaves under that id a
\* fresh session with the name given: no participants, hence none of their
\* votes, not revealed, and, in the key-value store, an empty story that is
\* not locked.  The same holds of SessionManager.createSession, whose
\* sessions have no story.
C39_CreateReplacesTheSession ==
  [][/\ (last'.op = "createSession" /\ last'.sid \in DOMAIN store) =>
          /\ last'.ok
          /\ last'.sid \in DOMAIN store'
          /\ LET session == store'[last'.sid]
             IN  /\ session.participants = <<>>
                 /\ session.revealed = FALSE
                 /\ session.story = ""
                 /\ session.storyLocked = FALSE
                 /\ session.name = CreatedSessionName
     /\ (last'.op = "mgr.createSession" /\ last'.sid \in DOMAIN sessions) =>
          /\ last'.ok
          /\ last'.sid \in DOMAIN sessions'
          /\ LET session == sessions'[last'.sid]
             IN  /\ session.participants = <<>>
                 /\ session.revealed = FALSE
                 /\ session.name = CreatedSessionName]_vars

\* both stores hold a session created over one that had participants
C39_Witness ==
  /\ last.op = "mgr.createSession" /\ last.ok
  /\ sessions[last.sid] = mgrSession(last.sid, CreatedSessionName, now)
  /\ last.sid \in DOMAIN store
  /\ store[last.sid] = createSession(last.sid, CreatedSessionName, now)

\* ------------------------------------------------ leaving and heartbeats
\* ---- LeaveSpec: tabs whose heartbeat and leave requests are in flight
\* together.  A tab joins as in PresenceSpec; its heartbeats and its leave
\* are requests that each take a free slot of procs and run as the GET and
\* SET steps of updateHeartbeat and removeParticipant.
LeaveInit ==
  /\ store = NoSessions
  /\ now = 0
  /\ last = Returned(NoCall, TRUE)
  /\ procs = [p \in ProcIds |-> Proc(NoCall, "done", <<>>, FALSE)]
  /\ base = NoSessions
  /\ sessions = NoMgrSessions
  /\ storeSessions = NoStoreSessions
  /\ pushed = <<>>
  /\ socketToParticipant = NoSockets
  /\ client = [fn |-> "tabs", open |-> {},
               sentAt |-> [pid \in ParticipantIds |-> <<>>]]

\* sendHeartbeat: nothing is sent once myIdRef.current is null
SendHeartbeat(p, sid, pid) ==
  /\ pid \in client.open
  /\ procs[p].pc = "done"
  /\ procs' = [procs EXCEPT ![p] =
       Proc(Call("updateHeartbeat", sid, pid, "", "", "", "", FALSE),
            "get", <<>>, FALSE)]
  /\ UNCHANGED <<store, now, last, base, sessions, storeSessions, pushed,
                 client, socketToParticipant>>

\* leaveSession: myIdRef.current = null, then the leave request
SendLeave(p, sid, pid) ==
  /\ pid \in client.open
  /\ procs[p].pc = "done"
  /\ client' = [client EXCEPT !.open = @ \ {pid}]
  /\ procs' = [procs EXCEPT ![p] =
       Proc(Call("removeParticipant", sid, pid, "", "", "", "", FALSE),
            "get", <<>>, FALSE)]
  /\ UNCHANGED <<store, now, last, base, sessions, storeSessions, pushed,
                 socketToParticipant>>

LeaveNext ==
  \/ \E sid \in SessionIds, pid \in ParticipantIds :
       PageJoin(sid, pid, "Alice", "estimator")
  \/ \E p \in ProcIds, sid \in SessionIds, pid \in ParticipantIds :
       SendHeartbeat(p, sid, pid)
  \/ \E p \in ProcIds, sid \in SessionIds, pid \in ParticipantIds :
       SendLeave(p, sid, pid)
  \/ \E p \in ProcIds : GetSession(p)
  \/ \E p \in ProcIds : SetSession(p)

LeaveSpec == LeaveInit /\ [][LeaveNext]_vars

====
